---- MODULE Spec2Model ----
(***************************************************************************)
(* Model of the KsKs pairing task HigherMassResonances                     *)
(* (PWGLF/Tasks/Resonances/higherMassResonances.cxx): configuration check  *)
(* in init, single-candidate selection, same-event and mixed-event pairing *)
(* and the observable calculator fillInvMass.                              *)
(*                                                                         *)
(* Fixed-point units used for the floating-point quantities of the code:   *)
(*   momentum, energy, mass : 0.1 MeV   (1 GeV = 10000)                    *)
(*   eta, phi, DCA, cosPA   : 1/1000                                       *)
(*   radius, lifetime, nSigma : 1/10                                       *)
(*   rotation angles        : pi/10 (18 degrees), cos and sin in 1/1000    *)
(***************************************************************************)
EXTENDS Integers, Sequences, FiniteSets, TLC

VARIABLES config, phase, frame, pc, multiplicity, daughter1, daughter2, mother, isMix, calls,
          htrackscheck_v0, htrackscheck_v0_daughters, returned,
          candidates, hfSelD0CandidateALICE3Barrel,
          mcParticles, V0sMC, passKs, gindex1, gindex2, hMChists,
          tracks, jets, particles, mcpjets, spectra

vars == <<config, phase, frame, pc, multiplicity, daughter1, daughter2, mother, isMix, calls,
          htrackscheck_v0, htrackscheck_v0_daughters, returned,
          candidates, hfSelD0CandidateALICE3Barrel,
          mcParticles, V0sMC, passKs, gindex1, gindex2, hMChists,
          tracks, jets, particles, mcpjets, spectra>>

\* the Monte Carlo tables, members and histograms of the K0s-pair task
\* (processGen and processRec), which the data handlers never touch
mcvars == <<mcParticles, V0sMC, passKs, gindex1, gindex2, hMChists>>

\* the tables and the histogram registry of the jetHadronRecoil_OO task
jetvars == <<tracks, jets, particles, mcpjets, spectra>>

\* the Monte Carlo handlers are switched off: no table, members as constructed
IdleMC ==
  /\ mcParticles = <<>>
  /\ V0sMC = <<>>
  /\ passKs = <<>>
  /\ gindex1 = <<>>
  /\ gindex2 = <<>>
  /\ hMChists = <<>>

\* the jetHadronRecoil_OO task is not in the workflow
IdleJet ==
  /\ tracks = <<>>
  /\ jets = <<>>
  /\ particles = <<>>
  /\ mcpjets = <<>>
  /\ spectra = [registered |-> {}, fills |-> <<>>]

\* the tables of the D0 selector task, which the K0s-pair task never touches
d0vars == <<candidates, hfSelD0CandidateALICE3Barrel>>

\* the members, histograms and tables of the K0s-pair task, which the D0
\* selector task never touches
pairvars == <<phase, frame, multiplicity, daughter1, daughter2, mother, isMix, calls,
              htrackscheck_v0, htrackscheck_v0_daughters, returned>>

(***************************************************************************)
(* Bounds of the model.                                                    *)
(***************************************************************************)
\* largest number of V0 candidates one collision of a data frame holds
MaxV0PerCollision == 3

\* largest cRotations (rotated samples per pair) of the fillInvMass specification
MaxRotations == 2

\* calls of the selection functions in the selection specification
MaxSelectionCalls == 2

\* rows of the candidate table given to the D0 selector
MaxD0Candidates == 2

\* generated particles of one Monte Carlo collision
MaxMcParticles == 2

\* rows of the particle table given to the jet-hadron recoil task
MaxJetParticles == 2

\* process calls of the jet-hadron recoil task on one data frame
MaxJetCalls == 2

(***************************************************************************)
(* Arithmetic helpers.                                                     *)
(***************************************************************************)
Abs(x) == IF x < 0 THEN -x ELSE x

\* F applied to the value of x (x is evaluated once)
Let1(x, F(_)) == CHOOSE r \in { F(v) : v \in {x} } : TRUE

\* Newton's iteration from x >= sqrt(n) down to the largest r with r*r <= n
RECURSIVE SqrtNewton(_, _)
SqrtNewton(n, x) ==
  LET y == (x + n \div x) \div 2
  IN IF y >= x THEN x ELSE SqrtNewton(n, y)

\* std::sqrt on fixed-point values: the largest r with r*r <= n
Sqrt(n) ==
  IF n <= 0 THEN 0
  ELSE SqrtNewton(n, IF n < 10000 THEN 100
                     ELSE IF n < 1000000 THEN 1000
                     ELSE IF n < 100000000 THEN 10000
                     ELSE 46341)

\* division by 1000 rounding to nearest (products of a value and a cos/sin)
Round1000(x) == (x + 500) \div 1000

\* cos of 0, 18, 36, 54, 72, 90 degrees, in 1/1000
CosQuarter == <<1000, 951, 809, 588, 309, 0>>

\* pi in units of the angle grid
PI == 2 * (Len(CosQuarter) - 1)

\* std::cos on the angle grid
Cos(t) ==
  LET a == t % (2 * PI)
      b == IF a > PI THEN 2 * PI - a ELSE a
  IN IF 2 * b <= PI THEN CosQuarter[b + 1] ELSE -CosQuarter[PI - b + 1]

\* std::sin on the angle grid: sin(t) = cos(t - pi/2)
Sin(t) == Cos(t + 2 * PI - PI \div 2)

\* o2::constants::physics::MassK0Short (0.497611 GeV)
MassK0Short == 4976

\* o2::constants::physics::MassLambda0 (1.115683 GeV)
MassLambda0 == 11157

(***************************************************************************)
(* ROOT::Math::PxPyPzMVector.                                              *)
(***************************************************************************)
PxPyPzMVector(px, py, pz, m) == [px |-> px, py |-> py, pz |-> pz, m |-> m]

NullVector == PxPyPzMVector(0, 0, 0, 0)

Mag2(v) == v.px * v.px + v.py * v.py + v.pz * v.pz

Energy(v) == Sqrt(Mag2(v) + v.m * v.m)

Pt(v) == Sqrt(v.px * v.px + v.py * v.py)

\* a sum of two four-vectors that adds the momenta and the masses
VecAddMasses(a, b) ==
  PxPyPzMVector(a.px + b.px, a.py + b.py, a.pz + b.pz, a.m + b.m)

\* operator+ of two four-vectors: momenta and energies add, the mass follows
VecAdd(a, b) ==
  LET px == a.px + b.px
      py == a.py + b.py
      pz == a.pz + b.pz
      e  == Energy(a) + Energy(b)
  IN PxPyPzMVector(px, py, pz, Sqrt(e * e - (px * px + py * py + pz * pz)))

\* tanh of a rapidity given in 1/1000, in 1/1000
Tanh(y) == CASE y = 500 -> 462 [] y = 800 -> 664 [] OTHER -> 1000

\* Rapidity() < y:  pz / E < tanh(y)
RapidityBelow(v, y) == v.pz * 1000 < Energy(v) * Tanh(y)

\* std::abs(Rapidity()) < y
AbsRapidityBelow(v, y) == Abs(v.pz) * 1000 < Energy(v) * Tanh(y)

\* rotation of the transverse momentum of v by the grid angle t, mass kept
RotateXY(v, t) ==
  PxPyPzMVector(Round1000(v.px * Cos(t) - v.py * Sin(t)),
                Round1000(v.px * Sin(t) + v.py * Cos(t)),
                v.pz, v.m)

(***************************************************************************)
(* Configuration (struct config and RCTCut), with the source's defaults.   *)
(* cRotations is configurable (default 3); the model runs with 1 in the    *)
(* pairing specification and with 0..2 in the fillInvMass specification.   *)
(***************************************************************************)
DefaultConfig ==
  [ requireRCTFlagChecker |-> TRUE,
    cDCAv0topv |-> FALSE,
    globalTracks |-> FALSE,
    hasTPC |-> FALSE,
    selectTWOKsOnly |-> TRUE,
    timFrameEvsel |-> TRUE,
    confV0DCADaughMax |-> 1000,
    cMaxV0DCA |-> 1000,
    confV0PtMin |-> 0,
    confV0CPAMin |-> 970,
    confV0TranRadV0Min |-> 5,
    confV0TranRadV0Max |-> 2000,
    cMaxV0LifeTime |-> 150,
    cSigmaMassKs0 |-> 4,
    cWidthKs0 |-> 50,
    confDaughEta |-> 800,
    confDaughTPCnclsMin |-> 70,
    confDaughPIDCuts |-> 50,
    confKsrapidity |-> 500,
    applyAngSepCut |-> FALSE,
    angSepCut |-> 10,
    cfgNmixedEvents |-> 5,
    cfgMultFOTM |-> TRUE,
    activateTHnSparseCosThStarHelicity |-> FALSE,
    activateTHnSparseCosThStarProduction |-> FALSE,
    activateTHnSparseCosThStarBeam |-> TRUE,
    activateTHnSparseCosThStarRandom |-> FALSE,
    cRotations |-> 1,
    applyCompetingcut |-> FALSE,
    competingcascrejlambda |-> 50,
    tpcCrossedrows |-> 70,
    tpcCrossedrowsOverfcls |-> 800,
    rotationalCut |-> 10,
    applyPairRapidityRec |-> FALSE,
    applyPairRapidityGen |-> FALSE,
    isMC |-> FALSE,
    allGenCollisions |-> TRUE,
    cTVXEvsel |-> TRUE,
    selectMCparticles |-> 1,
    apply_rapidityMC |-> TRUE,
    pdgCodes |-> <<10331, 335, 115, 10221, 9030221>> ]

\* the four reference-axis flags of a configuration, in the order of init's array
Sparses(cfg) ==
  << cfg.activateTHnSparseCosThStarHelicity, cfg.activateTHnSparseCosThStarProduction,
     cfg.activateTHnSparseCosThStarBeam, cfg.activateTHnSparseCosThStarRandom >>

WithSparses(cfg, he, pr, be, ra) ==
  [cfg EXCEPT !.activateTHnSparseCosThStarHelicity = he,
              !.activateTHnSparseCosThStarProduction = pr,
              !.activateTHnSparseCosThStarBeam = be,
              !.activateTHnSparseCosThStarRandom = ra]

(***************************************************************************)
(* Input tables of a data frame: tracks, V0 candidates, collisions.        *)
(* A row's globalIndex is its position in the table.                       *)
(***************************************************************************)
Track(sign, nsigma) ==
  [ sign |-> sign, hasTPC |-> TRUE, tpcNClsCrossedRows |-> 90,
    tpcCrossedRowsOverFindableCls |-> 950, tpcNClsFound |-> 85,
    isGlobalTrack |-> TRUE, eta |-> 300, tpcNSigmaPi |-> nsigma ]

\* Track::sign() is +1 or -1 for every track
TrackTable ==
  << Track(1, 10), Track(-1, -5), Track(1, 0), Track(-1, 20),
     Track(1, -12), Track(-1, 3), Track(1, 60) >>

\* pt and the energy under the K0s mass hypothesis (it gives yK0Short) are
\* columns computed from the momentum
V0(pos, neg, px, py, pz, eta, phi, cpa) ==
  [ posTrackId |-> pos, negTrackId |-> neg, px |-> px, py |-> py, pz |-> pz,
    pt |-> Pt(PxPyPzMVector(px, py, pz, MassK0Short)),
    eK0Short |-> Energy(PxPyPzMVector(px, py, pz, MassK0Short)),
    eta |-> eta, phi |-> phi, dcav0topv |-> 100, dcaV0daughters |-> 300,
    v0cosPA |-> cpa, v0radius |-> 40, ctauK0s |-> 30, mK0Short |-> 4980,
    mLambda |-> 11900, mAntiLambda |-> 11900 ]

\* 1, 2: the same two tracks; 2, 3: the same negative track; 3, 4: the same
\* positive track; 4, 5: disjoint and close in eta-phi; 5, 6: the negative
\* daughter of 5 is the positive daughter of 6; 7: fails the cosPA cut
V0Table ==
  << V0(1, 2, 10000, 0, 0, 0, 0, 990),
     V0(1, 2, 9000, 1000, 500, 50, 110, 990),
     V0(3, 2, -10000, 0, 0, 0, 3142, 995),
     V0(3, 4, 3000, 4000, 2000, 390, 927, 999),
     V0(5, 6, 3100, 4100, 2100, 395, 923, 980),
     V0(6, 4, 0, 5000, -2000, -390, 1571, 985),
     V0(7, 2, 2000, 2000, 0, 0, 785, 900) >>

NumV0 == Len(V0Table)

\* collisions of a data frame, by their centrality columns (per cent)
CentFT0M == <<10, 20, 30>>

CentFT0C == <<15, 25, 35>>

NumCollisions == Len(CentFT0M)

\* every collision passes the event cuts except the one the frame marks
\* (bad = 0: none), which fails the quality `kind` ("sel8", "rct" or
\* "timeFrameBorder"); all share one mixing bin
Collision(fr, c) ==
  [ index |-> c,
    sel8 |-> ~(fr.bad = c /\ fr.kind = "sel8"),
    kNoTimeFrameBorder |-> ~(fr.bad = c /\ fr.kind = "timeFrameBorder"),
    kNoITSROFrameBorder |-> TRUE,
    rct |-> ~(fr.bad = c /\ fr.kind = "rct"),
    bin |-> 1,
    centFT0M |-> CentFT0M[c],
    centFT0C |-> CentFT0C[c] ]

RECURSIVE SumTo(_, _)
SumTo(f, n) == IF n = 0 THEN 0 ELSE f[n] + SumTo(f, n - 1)

\* data frames: the V0 table is sorted by collision, collision c holds
\* sizes[c] consecutive candidates; the last candidate of the table may lie
\* outside the frame
Frames ==
  { [sizes |-> s, bad |-> q[1], kind |-> q[2]] :
      s \in { t \in [1..NumCollisions -> 0..MaxV0PerCollision] :
                SumTo(t, NumCollisions) \in {NumV0 - 1, NumV0} },
      q \in {<<0, "sel8">>, <<1, "timeFrameBorder">>}
               \cup ((1..NumCollisions) \X {"sel8", "rct"}) }

\* the candidates grouped to collision c, as global indices in table order
V0sOf(fr, c) ==
  LET first == SumTo(fr.sizes, c - 1)
  IN [k \in 1..fr.sizes[c] |-> first + k]

(***************************************************************************)
(* Event and candidate selection.                                          *)
(***************************************************************************)
eventselection(cfg, collision) ==
  /\ ~(cfg.timFrameEvsel /\ (~collision.kNoTimeFrameBorder \/ ~collision.kNoITSROFrameBorder))
  /\ collision.sel8

\* rctCut.rctChecker(collision)
rctChecker(collision) == collision.rct

\* the four-vector built from a candidate's momentum and the K0s mass
KshortVector(cand) == PxPyPzMVector(cand.px, cand.py, cand.pz, MassK0Short)

\* one cut of a cut flow: whether the candidate passes it, and the bin of
\* the counter histogram filled right after it (NoBin: none)
NoBin == -1

Cut(pass, bin) == [pass |-> pass, bin |-> bin]

\* the number of cuts passed before the first failing one: a failing cut
\* returns false and nothing after it is evaluated
RECURSIVE PassedBefore(_, _)
PassedBefore(cuts, k) ==
  IF k > Len(cuts) THEN Len(cuts)
  ELSE IF ~cuts[k].pass THEN k - 1
  ELSE PassedBefore(cuts, k + 1)

\* the counter fills without the early return: the bin after every cut that
\* passes on its own
BinsFilledNoReturn(cuts) ==
  {0} \cup { cuts[k].bin : k \in { n \in DOMAIN cuts : cuts[n].pass /\ cuts[n].bin # NoBin } }

\* the bins of the counter histogram one call fills: bin 0 on entry, then the
\* bin after each cut passed
BinsFilled(cuts) ==
  Let1(PassedBefore(cuts, 1), LAMBDA passed :
    {0} \cup { cuts[k].bin : k \in { n \in 1..passed : cuts[n].bin # NoBin } })

\* the bins of htrackscheck_v0 and of htrackscheck_v0_daughters that are filled
V0Bins == 0..10

V0DaughterBins == 0..8

\* a histogram after registration
EmptyHist(bins) == [b \in bins |-> 0]

\* no call has returned
NoValue == [call |-> "none"]

\* hist->Fill for every bin of the set
FillBins(hist, bins) == [b \in DOMAIN hist |-> IF b \in bins THEN hist[b] + 1 ELSE hist[b]]

\* the cuts of selectionV0 in the order of the code; the Armenteros cut
\* before bin 9 is disabled in the code and always passes
V0Cuts(cfg, collision, candidate) ==
  LET pT == candidate.pt
      tranRad == candidate.v0radius
      dcaDaughv0 == candidate.dcaV0daughters
      cpav0 == candidate.v0cosPA
      ctauK0s == candidate.ctauK0s
      lowmasscutks0 == 4970 - cfg.cWidthKs0 * cfg.cSigmaMassKs0
      highmasscutks0 == 4970 + cfg.cWidthKs0 * cfg.cSigmaMassKs0
  IN << Cut(~(cfg.cDCAv0topv /\ Abs(candidate.dcav0topv) > cfg.cMaxV0DCA), 1),
        Cut(~(Abs(candidate.pz) * 1000 >= candidate.eK0Short * Tanh(cfg.confKsrapidity)), 2),
        Cut(~(pT < cfg.confV0PtMin), 3),
        Cut(~(dcaDaughv0 > cfg.confV0DCADaughMax), 4),
        Cut(~(cpav0 < cfg.confV0CPAMin), 5),
        Cut(~(tranRad < cfg.confV0TranRadV0Min), 6),
        Cut(~(tranRad > cfg.confV0TranRadV0Max), 7),
        Cut(~(Abs(ctauK0s) > cfg.cMaxV0LifeTime), 8),
        Cut(TRUE, 9),
        Cut(~(cfg.applyCompetingcut
               /\ (Abs(candidate.mLambda - MassLambda0) <= cfg.competingcascrejlambda
                   \/ Abs(candidate.mAntiLambda - MassLambda0) <= cfg.competingcascrejlambda)), 10),
        Cut(~(candidate.mK0Short < lowmasscutks0 \/ candidate.mK0Short > highmasscutks0), NoBin) >>

\* selectionV0 without the K0s mass window after the last counter
selectionV0NoMassWindow(cfg, collision, candidate) ==
  \A cuts \in { V0Cuts(cfg, collision, candidate) } : PassedBefore(cuts, 1) >= Len(cuts) - 1

selectionV0(cfg, collision, candidate) ==
  \A cuts \in { V0Cuts(cfg, collision, candidate) } : PassedBefore(cuts, 1) = Len(cuts)

\* isSelectedV0Daughter with the global-track requirement counted at step 2
V0DaughterCutsGlobalAtTwo(cfg, track, charge, nsigmaV0Daughter) ==
  << Cut(~(cfg.hasTPC /\ ~track.hasTPC), 1) >>
  \o (IF ~cfg.globalTracks
        THEN << Cut(~(track.tpcNClsCrossedRows < cfg.tpcCrossedrows), 2),
                Cut(~(track.tpcCrossedRowsOverFindableCls < cfg.tpcCrossedrowsOverfcls), 3),
                Cut(~(track.tpcNClsFound < cfg.confDaughTPCnclsMin), 4) >>
        ELSE << Cut(track.isGlobalTrack, 2) >>)
  \o << Cut(~(charge < 0 /\ track.sign > 0), 5),
        Cut(~(charge > 0 /\ track.sign < 0), 6),
        Cut(~(Abs(track.eta) > cfg.confDaughEta), 7),
        Cut(~(Abs(nsigmaV0Daughter) > cfg.confDaughPIDCuts), 8) >>

\* the cuts of isSelectedV0Daughter in the order of the code
V0DaughterCuts(cfg, track, charge, nsigmaV0Daughter) ==
  << Cut(~(cfg.hasTPC /\ ~track.hasTPC), 1) >>
  \o (IF ~cfg.globalTracks
        THEN << Cut(~(track.tpcNClsCrossedRows < cfg.tpcCrossedrows), 2),
                Cut(~(track.tpcCrossedRowsOverFindableCls < cfg.tpcCrossedrowsOverfcls), 3),
                Cut(~(track.tpcNClsFound < cfg.confDaughTPCnclsMin), 4) >>
        ELSE << Cut(track.isGlobalTrack, 4) >>)
  \o << Cut(~(charge < 0 /\ track.sign > 0), 5),
        Cut(~(charge > 0 /\ track.sign < 0), 6),
        Cut(~(Abs(track.eta) > cfg.confDaughEta), 7),
        Cut(~(Abs(nsigmaV0Daughter) > cfg.confDaughPIDCuts), 8) >>

\* isSelectedV0Daughter without the two comparisons of charge and track sign
isSelectedV0DaughterNoSign(cfg, track, charge, nsigmaV0Daughter) ==
  /\ ~(cfg.hasTPC /\ ~track.hasTPC)
  /\ IF ~cfg.globalTracks
       THEN /\ ~(track.tpcNClsCrossedRows < cfg.tpcCrossedrows)
            /\ ~(track.tpcCrossedRowsOverFindableCls < cfg.tpcCrossedrowsOverfcls)
            /\ ~(track.tpcNClsFound < cfg.confDaughTPCnclsMin)
       ELSE track.isGlobalTrack
  /\ ~(Abs(track.eta) > cfg.confDaughEta)
  /\ ~(Abs(nsigmaV0Daughter) > cfg.confDaughPIDCuts)

isSelectedV0Daughter(cfg, track, charge, nsigmaV0Daughter) ==
  \A cuts \in { V0DaughterCuts(cfg, track, charge, nsigmaV0Daughter) } :
    PassedBefore(cuts, 1) = Len(cuts)

\* both daughters of a candidate pass isSelectedV0Daughter
DaughtersSelected(cfg, cand) ==
  LET postrack == TrackTable[cand.posTrackId]
      negtrack == TrackTable[cand.negTrackId]
  IN /\ isSelectedV0Daughter(cfg, negtrack, -1, negtrack.tpcNSigmaPi)
     /\ isSelectedV0Daughter(cfg, postrack, 1, postrack.tpcNSigmaPi)

\* angle > angSepCut, compared on the squares (both sides are >= 0)
applyAngSep(cfg, candidate1, candidate2) ==
  LET deta == candidate1.eta - candidate2.eta
      dphi == candidate1.phi - candidate2.phi
      angle2 == deta * deta + dphi * dphi
  IN ~(cfg.applyAngSepCut /\ angle2 > cfg.angSepCut * cfg.angSepCut)

(***************************************************************************)
(* fillInvMass: the observable calculator.                                 *)
(* cosThetaStar is carried as the reference axis it was computed against.  *)
(***************************************************************************)
AxisOrder == <<"helicity", "production", "beam", "random">>

\* a chain of independent ifs: every enabled branch executes
AxesEvaluatedAll(cfg) ==
  { AxisOrder[k] : k \in { n \in DOMAIN Sparses(cfg) : Sparses(cfg)[n] } }

\* the branches of the if / else-if chain on the activateTHnSparse flags
\* that one call executes
AxesEvaluated(cfg) ==
  IF cfg.activateTHnSparseCosThStarHelicity THEN {"helicity"}
  ELSE IF cfg.activateTHnSparseCosThStarProduction THEN {"production"}
  ELSE IF cfg.activateTHnSparseCosThStarBeam THEN {"beam"}
  ELSE IF cfg.activateTHnSparseCosThStarRandom THEN {"random"}
  ELSE {}

\* TRandom::Uniform(x1, x2) on the angle grid: any grid angle from x1 to x2
Uniform(x1, x2) == x1..x2

\* the angles of the full turn outside the window around pi
RotationAnglesOutside(cfg) ==
  (0..(2 * PI - 1)) \ Uniform(PI - PI \div cfg.rotationalCut, PI + PI \div cfg.rotationalCut)

\* the values rn->Uniform(PI - PI / rotationalCut, PI + PI / rotationalCut) can return
RotationAngles(cfg) == Uniform(PI - PI \div cfg.rotationalCut, PI + PI \div cfg.rotationalCut)

\* the gate without std::abs
RapidityGateSigned(mother_) == RapidityBelow(mother_, 500)

\* the gate on the primary and on the mixed entry: std::abs(mother.Rapidity()) < 0.5
RapidityGate(mother_) == AbsRapidityBelow(mother_, 500)

\* motherRot of one rotation by theta2 under the given axis branch
MotherRot(axis, mother_, daughter1_, daughter2_, theta2) ==
  IF axis = "helicity"
    THEN VecAdd(RotateXY(daughter1_, theta2), daughter2_)
    ELSE RotateXY(mother_, theta2)

\* the gate on a rotated entry
RotGate(axis, motherRot) ==
  IF axis = "helicity" THEN RapidityBelow(motherRot, 500) ELSE AbsRapidityBelow(motherRot, 500)

Entry(hist, multiplicity_, v, axis, sample) ==
  [ hist |-> hist, multiplicity |-> multiplicity_, pt |-> Pt(v), m |-> v.m,
    cosThetaStar |-> axis, sample |-> sample ]

RECURSIVE RotFills(_, _, _, _, _, _, _, _)
RotFills(cfg, axis, mother_, multiplicity_, daughter1_, daughter2_, thetas, i) ==
  IF i > cfg.cRotations THEN <<>>
  ELSE LET motherRot == MotherRot(axis, mother_, daughter1_, daughter2_, thetas[i])
       IN (IF RotGate(axis, motherRot)
             THEN << Entry("h3glueInvMassRot", multiplicity_, motherRot, axis, i) >>
             ELSE <<>>)
          \o RotFills(cfg, axis, mother_, multiplicity_, daughter1_, daughter2_, thetas, i + 1)

\* the fills of one branch of the chain
BranchFills(cfg, axis, mother_, multiplicity_, daughter1_, daughter2_, isMix_, thetas) ==
  IF ~isMix_
    THEN (IF RapidityGate(mother_)
            THEN << Entry("h3glueInvMassDS", multiplicity_, mother_, axis, 0) >>
            ELSE <<>>)
         \o RotFills(cfg, axis, mother_, multiplicity_, daughter1_, daughter2_, thetas, 1)
    ELSE (IF RapidityGate(mother_)
            THEN << Entry("h3glueInvMassME", multiplicity_, mother_, axis, 0) >>
            ELSE <<>>)

RECURSIVE ChainFills(_, _, _, _, _, _, _, _)
ChainFills(cfg, k, mother_, multiplicity_, daughter1_, daughter2_, isMix_, thetas) ==
  IF k > Len(AxisOrder) THEN <<>>
  ELSE (IF AxisOrder[k] \in AxesEvaluated(cfg)
          THEN BranchFills(cfg, AxisOrder[k], mother_, multiplicity_, daughter1_, daughter2_, isMix_, thetas)
          ELSE <<>>)
       \o ChainFills(cfg, k + 1, mother_, multiplicity_, daughter1_, daughter2_, isMix_, thetas)

\* the rotation loop run for mixed pairs too
RotationDrawsAlways(cfg, isMix_) == cfg.cRotations

\* the number of rn->Uniform draws of one call: the rotation loop stands in
\* the `if (!isMix)` block of the branch taken
RotationDraws(cfg, isMix_) ==
  IF isMix_ \/ AxesEvaluated(cfg) = {} THEN 0 ELSE cfg.cRotations

\* the possible results of one call: one per choice of the rotation angles
fillInvMass(cfg, mother_, multiplicity_, daughter1_, daughter2_, isMix_) ==
  LET draws == RotationDraws(cfg, isMix_)
  IN { [ mother |-> mother_, daughter1 |-> daughter1_, daughter2 |-> daughter2_,
         isMix |-> isMix_, multiplicity |-> multiplicity_,
         axes |-> AxesEvaluated(cfg), theta2 |-> thetas,
         fills |-> ChainFills(cfg, 1, mother_, multiplicity_, daughter1_, daughter2_, isMix_, thetas) ] :
       thetas \in [1..draws -> RotationAngles(cfg)] }

(***************************************************************************)
(* Pairing: processSE / processSEderived and processME / processMEderived. *)
(***************************************************************************)
\* CombinationsFullIndexPolicy(a, b): every (x, y), x in a, y in b, row by row
\* the pairs of CombinationsStrictlyUpperIndexPolicy instead: second index
\* above the first
StrictlyUpperIndexPairs(a, b) ==
  SelectSeq([k \in 1..(Len(a) * Len(b)) |->
               << a[((k - 1) \div Len(b)) + 1], b[((k - 1) % Len(b)) + 1] >>],
            LAMBDA p : p[1] < p[2])

FullIndexPairs(a, b) ==
  [k \in 1..(Len(a) * Len(b)) |-> << a[((k - 1) \div Len(b)) + 1], b[((k - 1) % Len(b)) + 1] >>]

\* no comparison of the global indices
IndexNotAfterNever(i, j) == FALSE

\* v2.globalIndex() <= v1.globalIndex(): the pair is skipped
IndexNotAfter(i, j) == j <= i

\* no comparison of the daughter tracks
SharesTrackNever(v1, v2) == FALSE

\* the two candidates have the same positive or the same negative daughter track
SharesTrack(v1, v2) ==
  \/ v1.posTrackId = v2.posTrackId
  \/ v1.negTrackId = v2.negTrackId

\* the member variables after a pair is accepted
Accept(st, c1, i, c2, j, isMix_) ==
  LET d1 == KshortVector(V0Table[i])
      d2 == KshortVector(V0Table[j])
  IN [st EXCEPT !.daughter1 = d1, !.daughter2 = d2, !.mother = VecAdd(d1, d2),
                !.isMix = isMix_, !.src = [c1 |-> c1, v1 |-> i, c2 |-> c2, v2 |-> j]]

\* the arguments of a fillInvMass call made from the member variables
FillArgs(st, isMix_) ==
  [ src |-> st.src, mother |-> st.mother, multiplicity |-> st.multiplicity,
    daughter1 |-> st.daughter1, daughter2 |-> st.daughter2, isMix |-> isMix_ ]

\* std::find(...) == end() then push_back
PushUnique(v0indexes, i) ==
  IF \E k \in DOMAIN v0indexes : v0indexes[k] = i THEN v0indexes ELSE Append(v0indexes, i)

\* what a call of selectionV0 on candidate i and of isSelectedV0Daughter on each
\* of its daughters does: the value returned and the counter bins filled. Both
\* are functions of the configuration and of the candidate, so every call of
\* a handler on the same candidate does the same
CandidateCalls(cfg, collision, i) ==
  LET candidate == V0Table[i]
      postrack == TrackTable[candidate.posTrackId]
      negtrack == TrackTable[candidate.negTrackId]
  IN [ selectionV0 |-> selectionV0(cfg, collision, candidate),
       v0bins |-> BinsFilled(V0Cuts(cfg, collision, candidate)),
       pos |-> isSelectedV0Daughter(cfg, postrack, 1, postrack.tpcNSigmaPi),
       posbins |-> BinsFilled(V0DaughterCuts(cfg, postrack, 1, postrack.tpcNSigmaPi)),
       neg |-> isSelectedV0Daughter(cfg, negtrack, -1, negtrack.tpcNSigmaPi),
       negbins |-> BinsFilled(V0DaughterCuts(cfg, negtrack, -1, negtrack.tpcNSigmaPi)) ]

\* CandidateCalls of the candidates of one collision, by index in the V0 table
RECURSIVE CallsOn(_, _, _, _)
CallsOn(cfg, collision, V0s, i) ==
  IF i > NumV0 THEN <<>>
  ELSE << IF \E k \in DOMAIN V0s : V0s[k] = i
            THEN CandidateCalls(cfg, collision, i) ELSE NoValue >>
       \o CallsOn(cfg, collision, V0s, i + 1)

\* the fills of htrackscheck_v0 one call of selectionV0 makes
CountV0(st, bins) ==
  [st EXCEPT !.htrackscheck_v0 = FillBins(@, bins)]

\* the fills of htrackscheck_v0_daughters one call of isSelectedV0Daughter makes
CountV0Daughter(st, bins) ==
  [st EXCEPT !.htrackscheck_v0_daughters = FillBins(@, bins)]

\* one iteration of the pair loop of processSE; on1 and on2 are CandidateCalls
\* of v1 and v2
SEStep(cfg, collision, st, i, j, on1, on2) ==
  LET v1 == V0Table[i]
      v2 == V0Table[j]
      s1 == CountV0(st, on1.v0bins)
      s2 == CountV0(s1, on2.v0bins)
      s3 == CountV0Daughter(s2, on1.negbins)
      s4 == CountV0Daughter(s3, on1.posbins)
      s5 == CountV0Daughter(s4, on2.posbins)
      s6 == CountV0Daughter(s5, on2.negbins)
  IN IF ~on1.selectionV0 THEN s1
     ELSE IF ~on2.selectionV0 THEN s2
     ELSE IF ~on1.neg THEN s3
     ELSE IF ~on1.pos THEN s4
     ELSE IF ~on2.pos THEN s5
     ELSE IF ~on2.neg THEN s6
     ELSE Let1([s6 EXCEPT !.v0indexes = PushUnique(@, i)], LAMBDA st1 :
            IF IndexNotAfter(i, j) THEN st1
            ELSE IF SharesTrack(v1, v2) THEN st1
            ELSE IF ~applyAngSep(cfg, v1, v2) THEN st1
            ELSE Let1([Accept(st1, collision.index, i, collision.index, j, FALSE)
                         EXCEPT !.allConditionsMet = TRUE], LAMBDA st2 :
                   IF ~cfg.selectTWOKsOnly
                     THEN [st2 EXCEPT !.args = Append(st2.args, FillArgs(st2, st2.isMix))]
                     ELSE st2))

RECURSIVE SELoop(_, _, _, _, _, _)
SELoop(cfg, collision, st, pairs, k, on) ==
  IF k > Len(pairs) THEN st
  ELSE Let1(SEStep(cfg, collision, st, pairs[k][1], pairs[k][2],
                   on[pairs[k][1]], on[pairs[k][2]]), LAMBDA nxt :
         SELoop(cfg, collision, nxt, pairs, k + 1, on))

\* the fill after the loop without the allConditionsMet condition
SEAfterLoopAnyTwo(cfg, st) ==
  IF cfg.selectTWOKsOnly /\ Len(st.v0indexes) = 2
    THEN [st EXCEPT !.args = Append(st.args, FillArgs(st, FALSE))]
    ELSE st

\* the fill after the loop of processSE
SEAfterLoop(cfg, st) ==
  IF cfg.selectTWOKsOnly /\ Len(st.v0indexes) = 2 /\ st.allConditionsMet
    THEN [st EXCEPT !.args = Append(st.args, FillArgs(st, FALSE))]
    ELSE st

\* the loop state a handler starts from: the member variables as they are
Members(mult, d1, d2, mo, mix, hv0, hdau) ==
  [ multiplicity |-> mult, daughter1 |-> d1, daughter2 |-> d2, mother |-> mo, isMix |-> mix,
    htrackscheck_v0 |-> hv0, htrackscheck_v0_daughters |-> hdau,
    src |-> [c1 |-> 0, v1 |-> 0, c2 |-> 0, v2 |-> 0],
    v0indexes |-> <<>>, allConditionsMet |-> FALSE, stopped |-> FALSE, args |-> <<>> ]

\* processSE and processSEderived on collision c of the frame: the member
\* variables it leaves and the fillInvMass calls it makes, in order
processSE(cfg, fr, c, mem) ==
  Let1(Collision(fr, c), LAMBDA collision :
    Let1([mem EXCEPT !.multiplicity =
            IF cfg.cfgMultFOTM THEN collision.centFT0M ELSE collision.centFT0C], LAMBDA st0 :
      IF ~eventselection(cfg, collision) THEN st0
      ELSE IF cfg.requireRCTFlagChecker /\ ~rctChecker(collision) THEN st0
      ELSE Let1(V0sOf(fr, c), LAMBDA V0s :
             Let1(FullIndexPairs(V0s, V0s), LAMBDA pairs :
               Let1(CallsOn(cfg, collision, V0s, 1), LAMBDA on :
                 SEAfterLoop(cfg, SELoop(cfg, collision, st0, pairs, 1, on)))))))

\* event pairs that also pair every collision with itself
EventPairsWithSelf(cfg, fr) ==
  [k \in 1..NumCollisions |-> <<k, k>>]

\* the event pairs SameKindPair / selfCombinations deliver: c1 before c2 in
\* the same mixing bin, at most cfgNmixedEvents partners for each c1
EventPairs(cfg, fr) ==
  LET partners(c1) == { c2 \in (c1 + 1)..NumCollisions :
                          /\ Collision(fr, c2).bin = Collision(fr, c1).bin
                          /\ Cardinality({ x \in (c1 + 1)..c2 :
                                 Collision(fr, x).bin = Collision(fr, c1).bin }) <= cfg.cfgNmixedEvents }
      all == { p \in (1..NumCollisions) \X (1..NumCollisions) : p[2] \in partners(p[1]) }
      rank(p) == Cardinality({ q \in all : q[1] < p[1] \/ (q[1] = p[1] /\ q[2] <= p[2]) })
  IN [k \in 1..Cardinality(all) |-> CHOOSE p \in all : rank(p) = k]

\* one iteration of the candidate-pair loop of the mixed-event handlers; on1
\* and on2 are CandidateCalls of t1 and t2
MEStep(cfg, c1, c2, st, i, j, on1, on2) ==
  LET t1 == V0Table[i]
      t2 == V0Table[j]
      s1 == CountV0(st, on1.v0bins)
      s2 == CountV0(s1, on2.v0bins)
      s3 == CountV0Daughter(s2, on1.posbins)
      s4 == CountV0Daughter(s3, on2.posbins)
      s5 == CountV0Daughter(s4, on1.negbins)
      s6 == CountV0Daughter(s5, on2.negbins)
  IN IF ~on1.selectionV0 THEN s1
     ELSE IF ~on2.selectionV0 THEN s2
     ELSE IF SharesTrack(t1, t2) THEN s2
     ELSE IF ~on1.pos THEN s3
     ELSE IF ~on2.pos THEN s4
     ELSE IF ~on1.neg THEN s5
     ELSE IF ~on2.neg THEN s6
     ELSE Let1(Accept(s6, c1.index, i, c2.index, j, TRUE), LAMBDA st1 :
            [st1 EXCEPT !.args = Append(st1.args, FillArgs(st1, st1.isMix))])

RECURSIVE MELoop(_, _, _, _, _, _, _, _)
MELoop(cfg, c1, c2, st, pairs, k, on1, on2) ==
  IF k > Len(pairs) THEN st
  ELSE Let1(MEStep(cfg, c1, c2, st, pairs[k][1], pairs[k][2],
                   on1[pairs[k][1]], on2[pairs[k][2]]), LAMBDA nxt :
         MELoop(cfg, c1, c2, nxt, pairs, k + 1, on1, on2))

\* the body of the event-pair loop; stopped records the return out of the loop
MEEventPair(cfg, fr, ft0m, rctChecked, st, p) ==
  IF st.stopped THEN st
  ELSE
  Let1(Collision(fr, p[1]), LAMBDA c1 :
  Let1(Collision(fr, p[2]), LAMBDA c2 :
  Let1([st EXCEPT !.multiplicity = IF ft0m THEN c1.centFT0M ELSE c1.centFT0C], LAMBDA st0 :
    IF ~eventselection(cfg, c1) \/ ~eventselection(cfg, c2) THEN st0
    ELSE IF rctChecked /\ cfg.requireRCTFlagChecker /\ ~rctChecker(c1)
      THEN [st0 EXCEPT !.stopped = TRUE]
    ELSE IF rctChecked /\ cfg.requireRCTFlagChecker /\ ~rctChecker(c2)
      THEN [st0 EXCEPT !.stopped = TRUE]
    ELSE Let1(FullIndexPairs(V0sOf(fr, p[1]), V0sOf(fr, p[2])), LAMBDA pairs :
           Let1(CallsOn(cfg, c1, V0sOf(fr, p[1]), 1), LAMBDA on1 :
             Let1(CallsOn(cfg, c2, V0sOf(fr, p[2]), 1), LAMBDA on2 :
               MELoop(cfg, c1, c2, st0, pairs, 1, on1, on2)))))))

RECURSIVE MEEvents(_, _, _, _, _, _, _)
MEEvents(cfg, fr, ft0m, rctChecked, st, evpairs, k) ==
  IF k > Len(evpairs) THEN st
  ELSE Let1(MEEventPair(cfg, fr, ft0m, rctChecked, st, evpairs[k]), LAMBDA nxt :
         MEEvents(cfg, fr, ft0m, rctChecked, nxt, evpairs, k + 1))

\* processME: the FT0M branch checks the RCT flags, the FT0C branch does not
processME(cfg, fr, mem) ==
  IF cfg.cfgMultFOTM
    THEN Let1(EventPairs(cfg, fr), LAMBDA evpairs : MEEvents(cfg, fr, TRUE, TRUE, mem, evpairs, 1))
    ELSE Let1(EventPairs(cfg, fr), LAMBDA evpairs : MEEvents(cfg, fr, FALSE, FALSE, mem, evpairs, 1))

processMEderived(cfg, fr, mem) ==
  Let1(EventPairs(cfg, fr), LAMBDA evpairs : MEEvents(cfg, fr, TRUE, TRUE, mem, evpairs, 1))

\* the call records a handler can leave: one fillInvMass result for each call
RECURSIVE CallSeqs(_, _)
CallSeqs(cfg, args) ==
  IF args = <<>> THEN { <<>> }
  ELSE LET a == Head(args)
       IN { << [src |-> a.src, res |-> r] >> \o rest :
              r \in fillInvMass(cfg, a.mother, a.multiplicity, a.daughter1, a.daughter2, a.isMix),
              rest \in CallSeqs(cfg, Tail(args)) }

(***************************************************************************)
(* init and the state machine of one data frame.                           *)
(***************************************************************************)
\* init without the fatal error
InitFatalNever(cfg) == FALSE

\* std::accumulate(sparses.begin(), sparses.end(), 0) == 0: LOGP(fatal, ...)
InitFatal(cfg) ==
  Cardinality({ k \in DOMAIN Sparses(cfg) : Sparses(cfg)[k] }) = 0

\* the reference-axis flags of the pairing specification: none set, and the
\* defaults of the source (beam axis only)
SparseChoices ==
  { <<FALSE, FALSE, FALSE, FALSE>>, Sparses(DefaultConfig) }

Configs ==
  { [WithSparses(DefaultConfig, sp[1], sp[2], sp[3], sp[4])
       EXCEPT !.selectTWOKsOnly = two, !.applyAngSepCut = ang,
              !.requireRCTFlagChecker = rct, !.cfgMultFOTM = fotm] :
      sp \in SparseChoices, two \in BOOLEAN, ang \in BOOLEAN,
      rct \in BOOLEAN, fotm \in BOOLEAN }

Init ==
  /\ config \in Configs
  /\ frame \in Frames
  /\ phase = "constructed"
  /\ pc = 0
  /\ multiplicity = 0
  /\ daughter1 = NullVector
  /\ daughter2 = NullVector
  /\ mother = NullVector
  /\ isMix = FALSE
  /\ calls = <<>>
  /\ htrackscheck_v0 = EmptyHist(V0Bins)
  /\ htrackscheck_v0_daughters = EmptyHist(V0DaughterBins)
  /\ returned = NoValue
  /\ candidates = <<>>
  /\ hfSelD0CandidateALICE3Barrel = <<>>
  /\ IdleMC
  /\ IdleJet

InitTask ==
  /\ phase = "constructed"
  /\ phase' = IF InitFatal(config) THEN "fatal" ELSE "ready"
  /\ UNCHANGED <<config, frame, pc, multiplicity, daughter1, daughter2, mother, isMix, calls,
                 htrackscheck_v0, htrackscheck_v0_daughters, returned, d0vars, mcvars, jetvars>>

\* the handlers of a data frame run in the order processSE (each collision),
\* processME, processSEderived (each collision), processMEderived
Handler(n) ==
  IF n < 1 THEN "none"
  ELSE IF n <= NumCollisions THEN "processSE"
  ELSE IF n = NumCollisions + 1 THEN "processME"
  ELSE IF n <= 2 * NumCollisions + 1 THEN "processSEderived"
  ELSE IF n = 2 * NumCollisions + 2 THEN "processMEderived"
  ELSE "none"

Current ==
  Members(multiplicity, daughter1, daughter2, mother, isMix,
          htrackscheck_v0, htrackscheck_v0_daughters)

Leave(st) ==
  \E r \in {st} :
    /\ multiplicity' = r.multiplicity
    /\ daughter1' = r.daughter1
    /\ daughter2' = r.daughter2
    /\ mother' = r.mother
    /\ isMix' = r.isMix
    /\ htrackscheck_v0' = r.htrackscheck_v0
    /\ htrackscheck_v0_daughters' = r.htrackscheck_v0_daughters
    /\ calls' \in CallSeqs(config, r.args)
    /\ pc' = pc + 1
    /\ UNCHANGED <<config, phase, frame, returned, d0vars, mcvars, jetvars>>

ProcessSE ==
  /\ phase = "ready"
  /\ Handler(pc + 1) = "processSE"
  /\ Leave(processSE(config, frame, pc + 1, Current))

ProcessME ==
  /\ phase = "ready"
  /\ Handler(pc + 1) = "processME"
  /\ Leave(processME(config, frame, Current))

ProcessSEderived ==
  /\ phase = "ready"
  /\ Handler(pc + 1) = "processSEderived"
  /\ Leave(processSE(config, frame, pc - NumCollisions, Current))

ProcessMEderived ==
  /\ phase = "ready"
  /\ Handler(pc + 1) = "processMEderived"
  /\ Leave(processMEderived(config, frame, Current))

Next == InitTask \/ ProcessSE \/ ProcessME \/ ProcessSEderived \/ ProcessMEderived

Spec == Init /\ [][Next]_vars

(***************************************************************************)
(* The observable calculator on its own: fillInvMass as a function of its  *)
(* arguments and of the configuration, for every combination of the        *)
(* reference-axis flags init accepts.                                      *)
(***************************************************************************)
\* K0s momenta of the candidates a pair can be made of; with the rapidity
\* cut confKsrapidity opened to 0.8 each of them passes selectionV0
FillMomenta ==
  { <<10000, 0, 0>>, <<3000, 4000, 2000>>, <<0, 5000, -2000>>,
    <<3000, 1000, 5000>>, <<1000, -1000, -4500>>, <<-3000, 1000, 0>>,
    <<-10000, 0, 0>> }

FillConfigs ==
  { [WithSparses(DefaultConfig, he, pr, be, ra)
       EXCEPT !.confKsrapidity = 800, !.cRotations = n, !.rotationalCut = cut] :
      he \in BOOLEAN, pr \in BOOLEAN, be \in BOOLEAN, ra \in BOOLEAN,
      n \in 0..MaxRotations, cut \in {5, 10} }

FillVectors(cfg) ==
  { v \in { PxPyPzMVector(p[1], p[2], p[3], MassK0Short) : p \in FillMomenta } :
      AbsRapidityBelow(v, cfg.confKsrapidity) }

\* a data frame without candidates
EmptyFrame == [sizes |-> [c \in 1..NumCollisions |-> 0], bad |-> 0, kind |-> "sel8"]

InitFill ==
  /\ config \in { cfg \in FillConfigs : ~InitFatal(cfg) }
  /\ frame = EmptyFrame
  /\ phase = "ready"
  /\ pc = 0
  /\ multiplicity = CentFT0M[1]
  /\ daughter1 \in FillVectors(config)
  /\ daughter2 \in FillVectors(config)
  /\ mother = VecAdd(daughter1, daughter2)
  /\ isMix \in BOOLEAN
  /\ calls = <<>>
  /\ htrackscheck_v0 = EmptyHist(V0Bins)
  /\ htrackscheck_v0_daughters = EmptyHist(V0DaughterBins)
  /\ returned = NoValue
  /\ candidates = <<>>
  /\ hfSelD0CandidateALICE3Barrel = <<>>
  /\ IdleMC
  /\ IdleJet

\* one call fillInvMass(mother, multiplicity, daughter1, daughter2, isMix)
FillInvMass ==
  /\ pc = 0
  /\ pc' = 1
  /\ calls' \in CallSeqs(config, << FillArgs(Current, isMix) >>)
  /\ UNCHANGED <<config, phase, frame, multiplicity, daughter1, daughter2, mother, isMix,
                 htrackscheck_v0, htrackscheck_v0_daughters, returned, d0vars, mcvars, jetvars>>

NextFill == FillInvMass

SpecFill == InitFill /\ [][NextFill]_vars

(***************************************************************************)
(* The two selection functions on their own: selectionV0 and               *)
(* isSelectedV0Daughter called in any order on candidates and tracks that   *)
(* fail each cut in turn, under every combination of the optional cuts.    *)
(***************************************************************************)
SelConfigs ==
  { [DefaultConfig EXCEPT !.confV0PtMin = 2000, !.cDCAv0topv = dca, !.applyCompetingcut = comp,
                          !.globalTracks = glob, !.hasTPC = tpc] :
      dca \in BOOLEAN, comp \in BOOLEAN, glob \in BOOLEAN, tpc \in BOOLEAN }

\* a candidate passing every cut, and candidates failing one cut or two
GoodV0 == V0(3, 4, 3000, 4000, 2000, 390, 927, 999)

SelCandidates ==
  { GoodV0,
    [GoodV0 EXCEPT !.dcav0topv = 1500],
    V0(3, 4, 3000, 1000, 5000, 1240, 322, 999),
    V0(3, 4, 1000, 0, 0, 0, 0, 999),
    [GoodV0 EXCEPT !.dcaV0daughters = 1500],
    [GoodV0 EXCEPT !.v0cosPA = 900],
    [GoodV0 EXCEPT !.v0radius = 2],
    [GoodV0 EXCEPT !.v0radius = 2500],
    [GoodV0 EXCEPT !.ctauK0s = 200],
    [GoodV0 EXCEPT !.mLambda = 11160],
    [GoodV0 EXCEPT !.mK0Short = 5500],
    [GoodV0 EXCEPT !.v0cosPA = 900, !.mK0Short = 5500] }

\* a track passing every cut for the charge of its sign, and tracks failing
\* one cut
SelTracks ==
  { Track(1, 10), Track(-1, 10),
    [Track(1, 10) EXCEPT !.hasTPC = FALSE],
    [Track(1, 10) EXCEPT !.tpcNClsCrossedRows = 50],
    [Track(1, 10) EXCEPT !.tpcCrossedRowsOverFindableCls = 700],
    [Track(1, 10) EXCEPT !.tpcNClsFound = 60],
    [Track(1, 10) EXCEPT !.isGlobalTrack = FALSE],
    [Track(1, 10) EXCEPT !.eta = 900],
    Track(1, 60) }

InitSel ==
  /\ config \in SelConfigs
  /\ frame = EmptyFrame
  /\ phase = "ready"
  /\ pc = 0
  /\ multiplicity = CentFT0M[1]
  /\ daughter1 = NullVector
  /\ daughter2 = NullVector
  /\ mother = NullVector
  /\ isMix = FALSE
  /\ calls = <<>>
  /\ htrackscheck_v0 = EmptyHist(V0Bins)
  /\ htrackscheck_v0_daughters = EmptyHist(V0DaughterBins)
  /\ returned = NoValue
  /\ candidates = <<>>
  /\ hfSelD0CandidateALICE3Barrel = <<>>
  /\ IdleMC
  /\ IdleJet

\* one call selectionV0(collision, candidate, multiplicity)
SelectionV0 ==
  /\ pc < MaxSelectionCalls
  /\ pc' = pc + 1
  /\ \E candidate \in SelCandidates :
       /\ htrackscheck_v0' =
            FillBins(htrackscheck_v0, BinsFilled(V0Cuts(config, Collision(frame, 1), candidate)))
       /\ returned' = [ call |-> "selectionV0", candidate |-> candidate,
                        value |-> selectionV0(config, Collision(frame, 1), candidate) ]
  /\ UNCHANGED <<config, phase, frame, multiplicity, daughter1, daughter2, mother, isMix, calls,
                 htrackscheck_v0_daughters, d0vars, mcvars, jetvars>>

\* one call isSelectedV0Daughter(track, charge, nsigmaV0Daughter, candidate)
IsSelectedV0Daughter ==
  /\ pc < MaxSelectionCalls
  /\ pc' = pc + 1
  /\ \E track \in SelTracks, charge \in {-1, 1} :
       /\ htrackscheck_v0_daughters' =
            FillBins(htrackscheck_v0_daughters,
                     BinsFilled(V0DaughterCuts(config, track, charge, track.tpcNSigmaPi)))
       /\ returned' = [ call |-> "isSelectedV0Daughter", track |-> track, charge |-> charge,
                        value |-> isSelectedV0Daughter(config, track, charge, track.tpcNSigmaPi) ]
  /\ UNCHANGED <<config, phase, frame, multiplicity, daughter1, daughter2, mother, isMix, calls,
                 htrackscheck_v0, d0vars, mcvars, jetvars>>

NextSel == SelectionV0 \/ IsSelectedV0Daughter

SpecSel == InitSel /\ [][NextSel]_vars

(***************************************************************************)
(* HfCandidateSelectorD0Alice3Barrel: the D0 candidate selector.            *)
(* Momenta in 10 MeV/c, masses in MeV/c^2, lengths in micrometres, the      *)
(* impact-parameter product in 10^-6 cm^2, cosines in 1/1000, normalised    *)
(* quantities in 1/10, PID deviations (nsigma) in 1/4.                      *)
(***************************************************************************)
MassD0 == 1865

\* the bin of binsPt holding value, counted from 0; -1 below the first edge
\* and from the last edge on
findBin(binsPt, value) ==
  IF value < binsPt[1] THEN -1
  ELSE IF value >= binsPt[Len(binsPt)] THEN -1
  ELSE Cardinality({ k \in DOMAIN binsPt : binsPt[k] <= value }) - 1

\* cuts->get(pTBin, name)
CutsGet(cfg, pTBin, name) == cfg.cuts[pTBin + 1][name]

Min(a, b) == IF a < b THEN a ELSE b

\* the cuts of selectionTopol after the bin lookup
TopolCuts(cfg, candidate, pTBin) ==
  LET candpT == candidate.pt
      decayLengthCut == Min(((candidate.p * 66) \div 100) + 100,
                            CutsGet(cfg, pTBin, "minimum decay length"))
  IN /\ ~(candpT < cfg.ptCandMin \/ candpT >= cfg.ptCandMax)
     /\ ~(candidate.impactParameterProduct > CutsGet(cfg, pTBin, "d0d0"))
     /\ ~(candidate.cpa < CutsGet(cfg, pTBin, "cos pointing angle"))
     /\ ~(candidate.cpaXY < CutsGet(cfg, pTBin, "cos pointing angle xy"))
     /\ ~(candidate.decayLengthXYNormalised < CutsGet(cfg, pTBin, "normalized decay length XY"))
     /\ ~(Abs(candidate.impactParameterNormalised0) < 5
            \/ Abs(candidate.impactParameterNormalised1) < 5)
     /\ ~(candidate.decayLength * candidate.decayLength < decayLengthCut * decayLengthCut)
     /\ ~(candidate.decayLength > CutsGet(cfg, pTBin, "decay length"))
     /\ ~(candidate.decayLengthXY > CutsGet(cfg, pTBin, "decay length XY"))

\* selectionTopol without the return on pTBin == -1: the cuts of the first bin
selectionTopolNoBinCheck(cfg, candidate) ==
  TopolCuts(cfg, candidate, 0)

selectionTopol(cfg, candidate) ==
  \E pTBin \in { findBin(cfg.binsPt, candidate.pt) } :
    IF pTBin = -1 THEN FALSE ELSE TopolCuts(cfg, candidate, pTBin)

selectionTopolConjugate(cfg, candidate, trackPion, trackKaon) ==
  \E pTBin \in { findBin(cfg.binsPt, candidate.pt) } :
    IF pTBin = -1 THEN FALSE
    ELSE /\ IF trackPion.sign > 0
              THEN ~(Abs(candidate.invMassD0ToPiK - MassD0) > CutsGet(cfg, pTBin, "m"))
              ELSE ~(Abs(candidate.invMassD0barToKPi - MassD0) > CutsGet(cfg, pTBin, "m"))
         /\ ~(trackPion.pt < CutsGet(cfg, pTBin, "pT Pi") \/ trackKaon.pt < CutsGet(cfg, pTBin, "pT K"))
         /\ ~(Abs(trackPion.dcaXY) > CutsGet(cfg, pTBin, "d0pi")
                \/ Abs(trackKaon.dcaXY) > CutsGet(cfg, pTBin, "d0K"))
         /\ IF trackPion.sign > 0
              THEN ~(Abs(candidate.cosThetaStarD0) > CutsGet(cfg, pTBin, "cos theta*"))
              ELSE ~(Abs(candidate.cosThetaStarD0bar) > CutsGet(cfg, pTBin, "cos theta*"))

\* float nsigma = -5000.0
NSigmaUnset == -20000

\* the detector response read whether or not the track has one
NSigmaUnchecked(has, value) == value

\* the initial value is replaced only if the track has the response
NSigma(has, value) == IF has THEN value ELSE NSigmaUnset

\* std::sqrt(a * a + b * b) < 3.0, compared on the squares
CombinedBelow3(a, b) == a * a + b * b < 12 * 12

\* a row of HfSelD0Alice3Barrel
SelRow(hf, noPid, perfectPid, tofPid, richPid, tofPlusRichPid, barTofPlusRichPid) ==
  [ statusHFFlag |-> hf, statusD0NoPid |-> noPid, statusD0PerfectPid |-> perfectPid,
    statusD0TofPid |-> tofPid, statusD0RICHPID |-> richPid,
    statusD0TofPlusRichPid |-> tofPlusRichPid,
    statusD0barTofPlusRichPid |-> barTofPlusRichPid ]

Flag(b) == IF b THEN 1 ELSE 0

\* a status set without looking at the conjugate's topological selection
StatusIfUnnested(topol, pid) == Flag(pid)

\* if (topol) { if (pid) status = 1; }
StatusIf(topol, pid) == Flag(topol /\ pid)

\* the body of the candidate loop of process: the row written for a candidate
SelRowOf(cfg, candidate) ==
  IF ~candidate.hfflagD0ToPiK THEN SelRow(0, 0, 0, 0, 0, 0, 0)
  ELSE IF ~selectionTopol(cfg, candidate) THEN SelRow(1, 0, 0, 0, 0, 0, 0)
  ELSE
    LET trackPos == candidate.prong0
        trackNeg == candidate.prong1
        momentumPosTrack == trackPos.p
        momentumNegTrack == trackNeg.p
        topolD0 == selectionTopolConjugate(cfg, candidate, trackPos, trackNeg)
        topolD0bar == selectionTopolConjugate(cfg, candidate, trackNeg, trackPos)
        pdgPositive == IF trackPos.has_mcParticle THEN trackPos.pdgCode ELSE 0
        pdgNegative == IF trackNeg.has_mcParticle THEN trackNeg.pdgCode ELSE 0
        nsigmaTOFPosPion == NSigma(trackPos.hasTOF, trackPos.tofNSigmaPi)
        nsigmaTOFPosKaon == NSigma(trackPos.hasTOF, trackPos.tofNSigmaKa)
        nsigmaTOFNegKaon == NSigma(trackNeg.hasTOF, trackNeg.tofNSigmaKa)
        nsigmaTOFNegPion == NSigma(trackNeg.hasTOF, trackNeg.tofNSigmaPi)
        nsigmaRICHPosPion == NSigma(trackPos.has_rich, trackPos.richNsigmaPi)
        nsigmaRICHPosKaon == NSigma(trackPos.has_rich, trackPos.richNsigmaKa)
        nsigmaRICHNegKaon == NSigma(trackNeg.has_rich, trackNeg.richNsigmaKa)
        nsigmaRICHNegPion == NSigma(trackNeg.has_rich, trackNeg.richNsigmaPi)
        selectPosPionTOFplusRICH ==
          \/ (momentumPosTrack < 60 /\ Abs(nsigmaTOFPosPion) < 12)
          \/ (momentumPosTrack > 60 /\ trackPos.has_rich
                /\ CombinedBelow3(nsigmaRICHPosPion, nsigmaTOFPosPion))
        selectNegKaonTOFplusRICH ==
          \/ (momentumNegTrack < 200 /\ Abs(nsigmaTOFNegKaon) < 12)
          \/ (momentumNegTrack > 200 /\ trackNeg.has_rich
                /\ CombinedBelow3(nsigmaRICHNegKaon, nsigmaTOFNegKaon))
        selectNegPionTOFplusRICH ==
          \/ (momentumNegTrack < 60 /\ Abs(nsigmaTOFNegPion) < 12)
          \/ (momentumNegTrack > 60 /\ trackNeg.has_rich
                /\ CombinedBelow3(nsigmaRICHNegPion, nsigmaTOFNegPion))
        selectPosKaonTOFplusRICH ==
          \/ (momentumPosTrack < 200 /\ Abs(nsigmaTOFPosKaon) < 12)
          \/ (momentumPosTrack > 200 /\ trackPos.has_rich
                /\ CombinedBelow3(nsigmaRICHPosKaon, nsigmaTOFPosKaon))
    IN IF ~topolD0 /\ ~topolD0bar THEN SelRow(1, 0, 0, 0, 0, 0, 0)
       ELSE SelRow(1,
                   Flag(topolD0),
                   StatusIf(topolD0, pdgPositive = 211 /\ pdgNegative = -321),
                   StatusIf(topolD0, Abs(nsigmaTOFPosPion) < 12 /\ Abs(nsigmaTOFNegKaon) < 12),
                   StatusIf(topolD0, Abs(nsigmaRICHPosPion) < 12 /\ Abs(nsigmaRICHNegKaon) < 12),
                   StatusIf(topolD0, selectPosPionTOFplusRICH /\ selectNegKaonTOFplusRICH),
                   StatusIf(topolD0bar, selectNegPionTOFplusRICH /\ selectPosKaonTOFplusRICH))

\* a loop body that leaves on the first `continue` without filling the table
RowsWrittenNoneOnWrongFlag(cfg, candidate) ==
  IF ~candidate.hfflagD0ToPiK THEN <<>> ELSE <<SelRowOf(cfg, candidate)>>

\* the rows one pass of the loop body appends to the table: every path ends
\* in one call of hfSelD0CandidateALICE3Barrel(...)
RowsWritten(cfg, candidate) == <<SelRowOf(cfg, candidate)>>

\* process: the loop over the candidates, in table order
RECURSIVE process(_, _)
process(cfg, table) ==
  IF Len(table) = 0 THEN <<>>
  ELSE process(cfg, SubSeq(table, 1, Len(table) - 1))
         \o RowsWritten(cfg, table[Len(table)])

\* one row of the cuts array, by cut variable
CutRow(m, d0d0, cpa, cpaXY, ndlXY, minDL, dl, dlXY, pTPi, pTK, d0pi, d0K, cts) ==
  "m" :> m @@ "d0d0" :> d0d0 @@ "cos pointing angle" :> cpa
  @@ "cos pointing angle xy" :> cpaXY @@ "normalized decay length XY" :> ndlXY
  @@ "minimum decay length" :> minDL @@ "decay length" :> dl @@ "decay length XY" :> dlXY
  @@ "pT Pi" :> pTPi @@ "pT K" :> pTK @@ "d0pi" :> d0pi @@ "d0K" :> d0K @@ "cos theta*" :> cts

\* the configuration: two pT bins, 1-2 and 2-5 GeV/c
D0Config ==
  [ ptCandMin |-> 0, ptCandMax |-> 5000, binsPt |-> <<100, 200, 500>>,
    cuts |-> << CutRow(400, -300, 800, 0, 0, 600, 100000, 100000, 40, 40, 1000, 1000, 800),
                CutRow(400, -300, 900, 0, 0, 600, 100000, 100000, 70, 70, 1000, 1000, 800) >> ]

\* a daughter track; the columns of a missing response hold values that
\* would pass the PID requirements if they were read
D0Track(sign, p, pi, ka, tof, rich, pdg) ==
  [ sign |-> sign, pt |-> p, p |-> p, dcaXY |-> 50,
    hasTOF |-> tof, tofNSigmaPi |-> pi, tofNSigmaKa |-> ka,
    has_rich |-> rich, richNsigmaPi |-> pi, richNsigmaKa |-> ka,
    has_mcParticle |-> TRUE, pdgCode |-> pdg ]

\* a candidate passing every topological cut as a D0, with the given pT and
\* daughters
D0Candidate(pt, trackPos, trackNeg) ==
  [ hfflagD0ToPiK |-> TRUE, pt |-> pt, p |-> pt + 20,
    impactParameterProduct |-> -500, cpa |-> 990, cpaXY |-> 990,
    decayLengthXYNormalised |-> 50, impactParameterNormalised0 |-> 20,
    impactParameterNormalised1 |-> -20, decayLength |-> 500, decayLengthXY |-> 450,
    invMassD0ToPiK |-> 1870, invMassD0barToKPi |-> 1400,
    cosThetaStarD0 |-> 300, cosThetaStarD0bar |-> -300,
    prong0 |-> trackPos, prong1 |-> trackNeg ]

\* positive pion and negative kaon (D0), at low or high momentum, with and
\* without TOF and RICH
PionPos(p, tof, rich) == D0Track(1, p, 2, 30, tof, rich, 211)

KaonNeg(p, tof, rich) == D0Track(-1, p, 30, 3, tof, rich, -321)

\* positive kaon and negative pion (D0bar)
KaonPos(p, tof, rich) == D0Track(1, p, 30, 3, tof, rich, 321)

PionNeg(p, tof, rich) == D0Track(-1, p, 2, 30, tof, rich, -211)

D0Candidates ==
  { D0Candidate(150, PionPos(p[1], tp, rp), KaonNeg(p[2], tn, rn)) :
      p \in { <<50, 150>>, <<250, 250>> }, tp \in BOOLEAN, rp \in BOOLEAN,
      tn \in BOOLEAN, rn \in BOOLEAN }
  \cup { [D0Candidate(150, KaonPos(p[1], tp, TRUE), PionNeg(p[2], tn, TRUE))
            EXCEPT !.invMassD0ToPiK = 1400, !.invMassD0barToKPi = 1870] :
           p \in { <<150, 50>>, <<250, 250>> }, tp \in BOOLEAN, tn \in BOOLEAN }
  \cup { D0Candidate(50, PionPos(50, TRUE, TRUE), KaonNeg(150, TRUE, TRUE)),
         D0Candidate(600, PionPos(250, TRUE, TRUE), KaonNeg(250, TRUE, TRUE)),
         D0Candidate(150, D0Track(1, 50, 20, 30, TRUE, TRUE, 211), KaonNeg(150, TRUE, TRUE)),
         [D0Candidate(150, PionPos(50, TRUE, TRUE), KaonNeg(150, TRUE, TRUE))
            EXCEPT !.hfflagD0ToPiK = FALSE],
         [D0Candidate(300, PionPos(50, TRUE, TRUE), KaonNeg(150, TRUE, TRUE))
            EXCEPT !.cpa = 850],
         [D0Candidate(150, PionPos(50, TRUE, TRUE), KaonNeg(150, TRUE, TRUE))
            EXCEPT !.invMassD0ToPiK = 1400],
         [D0Candidate(150, PionPos(50, TRUE, TRUE), KaonNeg(150, TRUE, TRUE))
            EXCEPT !.invMassD0ToPiK = 1400, !.invMassD0barToKPi = 1870] }

\* the candidate tables given to process
Tables(n) == [1..n -> D0Candidates]

InitD0 ==
  /\ config = D0Config
  /\ \E n \in 1..MaxD0Candidates : candidates \in Tables(n)
  /\ hfSelD0CandidateALICE3Barrel = <<>>
  /\ IdleMC
  /\ IdleJet
  /\ pc = 0
  /\ phase = "ready"
  /\ frame = EmptyFrame
  /\ multiplicity = 0
  /\ daughter1 = NullVector
  /\ daughter2 = NullVector
  /\ mother = NullVector
  /\ isMix = FALSE
  /\ calls = <<>>
  /\ htrackscheck_v0 = EmptyHist(V0Bins)
  /\ htrackscheck_v0_daughters = EmptyHist(V0DaughterBins)
  /\ returned = NoValue

\* HfCandidateSelectorD0Alice3Barrel::process on the candidate table
Process ==
  /\ pc = 0
  /\ pc' = 1
  /\ hfSelD0CandidateALICE3Barrel' = process(config, candidates)
  /\ UNCHANGED <<config, candidates, pairvars, mcvars, jetvars>>

NextD0 == Process

SpecD0 == InitD0 /\ [][NextD0]_vars

(***************************************************************************)
(* processGen: the generated resonances of the Monte Carlo collisions of a *)
(* frame, one call for each collision. passKs, daughter1 and daughter2 are *)
(* members and keep their values from one call to the next.                *)
(***************************************************************************)
\* the histograms init registers when isMC is set, as the entries made so far
EmptyMCHists ==
  [ Genf1710 |-> <<>>, Genf17102 |-> <<>>, Recf1710_pt1 |-> <<>>, Recf1710_pt2 |-> <<>> ]

\* config.pdgCodes[config.selectMCparticles], a 0-based index
SelectedPdg(cfg) == cfg.pdgCodes[cfg.selectMCparticles + 1]

\* the loop state of processGen
GenState(pks, d1, d2, hists) ==
  [ passKs |-> pks, daughter1 |-> d1, daughter2 |-> d2, hMChists |-> hists ]

\* the loop over the daughters of a generated particle
RECURSIVE GenDaughters(_, _, _)
GenDaughters(st, kDaughters, n) ==
  IF n > Len(kDaughters) THEN st
  ELSE LET kCurrentDaughter == kDaughters[n]
           pks == Append(st.passKs, TRUE)
           v == PxPyPzMVector(kCurrentDaughter.px, kCurrentDaughter.py, kCurrentDaughter.pz,
                              MassK0Short)
       IN IF ~kCurrentDaughter.isPhysicalPrimary THEN GenDaughters(st, kDaughters, n + 1)
          ELSE IF Abs(kCurrentDaughter.pdgCode) # 310 THEN GenDaughters(st, kDaughters, n + 1)
          ELSE GenDaughters([st EXCEPT !.passKs = pks,
                                       !.daughter1 = IF Len(pks) = 1 THEN v ELSE @,
                                       !.daughter2 = IF Len(pks) = 2 THEN v ELSE @],
                            kDaughters, n + 1)

\* an entry of a generated-level histogram: the particle it was made for and
\* the daughter vectors it was computed from
GenEntry(k, n, st) ==
  [ mcCollision |-> k, mcParticle |-> n, daughter1 |-> st.daughter1, daughter2 |-> st.daughter2 ]

\* the body of the loop over the generated particles: particle n of Monte
\* Carlo collision k
GenParticle(cfg, st, k, n, mcParticle) ==
  IF Abs(mcParticle.pdgCode) # SelectedPdg(cfg) THEN st
  ELSE IF cfg.apply_rapidityMC /\ Abs(mcParticle.y) >= 500 THEN st
  ELSE IF Len(mcParticle.daughters) # 2 THEN st
  ELSE LET s1 == GenDaughters(st, mcParticle.daughters, 1)
           s2 == [s1 EXCEPT !.hMChists.Genf1710 = Append(@, GenEntry(k, n, s1))]
           lResonance_gen1 == VecAdd(s1.daughter1, s1.daughter2)
       IN IF Len(s1.passKs) # 2 THEN [s1 EXCEPT !.passKs = <<>>]
          ELSE IF cfg.applyPairRapidityGen /\ ~AbsRapidityBelow(lResonance_gen1, 500)
            THEN s2
          ELSE [s2 EXCEPT !.hMChists.Genf17102 = Append(@, GenEntry(k, n, s1)),
                          !.passKs = <<>>]

RECURSIVE GenParticles(_, _, _, _, _)
GenParticles(cfg, st, k, table, n) ==
  IF n > Len(table) THEN st
  ELSE GenParticles(cfg, GenParticle(cfg, st, k, n, table[n]), k, table, n + 1)

\* the loop over the reconstructed collisions of the Monte Carlo collision:
\* whether one of them passes the event cuts (all have |posZ| below
\* cutzvertex and the TVX trigger bit)
evtReconstructedAndSelected(cfg, collisions) ==
  \E n \in DOMAIN collisions :
    ~(cfg.timFrameEvsel /\ ~collisions[n].kNoTimeFrameBorder)

\* processGen on Monte Carlo collision k, its particles and its reconstructed
\* collisions
processGen(cfg, st, k, table, collisions) ==
  IF ~cfg.isMC THEN st
  ELSE IF ~cfg.allGenCollisions /\ ~evtReconstructedAndSelected(cfg, collisions) THEN st
  ELSE GenParticles(cfg, st, k, table, 1)

\* a generated K0s and a generated charged pion, as daughters
GenDaughter(pdg, primary, px, py, pz) ==
  [ pdgCode |-> pdg, isPhysicalPrimary |-> primary, px |-> px, py |-> py, pz |-> pz ]

GenParticleRow(pdg, y, daughters) == [ pdgCode |-> pdg, y |-> y, daughters |-> daughters ]

\* generated particles: an f2(1525) at mid-rapidity decaying into two primary
\* K0s, one at rapidity 0.7 whose K0s pair lies outside |y| < 0.5, another
\* species, an f2(1525) with one K0s, one with two pions and one with three
\* daughters
GenKinds ==
  { GenParticleRow(335, 0, << GenDaughter(310, TRUE, 3000, 4000, 1000),
                              GenDaughter(310, TRUE, -3000, 1000, -1000) >>),
    GenParticleRow(335, 700, << GenDaughter(310, TRUE, 3000, 1000, 5000),
                                GenDaughter(310, TRUE, 1000, -1000, 4500) >>),
    GenParticleRow(10331, 0, << GenDaughter(310, TRUE, 3000, 4000, 1000),
                                GenDaughter(310, TRUE, -3000, 1000, -1000) >>),
    GenParticleRow(335, 0, << GenDaughter(310, TRUE, 3000, 4000, 1000),
                              GenDaughter(310, FALSE, -3000, 1000, -1000) >>),
    GenParticleRow(335, 0, << GenDaughter(211, TRUE, 3000, 4000, 1000),
                              GenDaughter(-211, TRUE, -3000, 1000, -1000) >>),
    GenParticleRow(335, 0, << GenDaughter(310, TRUE, 3000, 4000, 1000),
                              GenDaughter(310, TRUE, -3000, 1000, -1000),
                              GenDaughter(111, TRUE, 0, 1000, 0) >>) }

GenConfigs ==
  { [DefaultConfig EXCEPT !.isMC = TRUE, !.apply_rapidityMC = rap, !.applyPairRapidityGen = pair,
                          !.allGenCollisions = all] :
      rap \in BOOLEAN, pair \in BOOLEAN, all \in BOOLEAN }

\* the frames of the generated-level specification: no candidates, and the
\* reconstructed collision of the first Monte Carlo collision on a time-frame
\* border or not
GenFrames ==
  { [EmptyFrame EXCEPT !.bad = q[1], !.kind = q[2]] :
      q \in { <<0, "sel8">>, <<1, "timeFrameBorder">> } }

\* processGen is called for the first NumMcCollisions collisions of the frame
NumMcCollisions == NumCollisions - 1

InitGen ==
  /\ config \in GenConfigs
  /\ frame \in GenFrames
  /\ phase = "ready"
  /\ pc = 0
  /\ multiplicity = 0
  /\ daughter1 = NullVector
  /\ daughter2 = NullVector
  /\ mother = NullVector
  /\ isMix = FALSE
  /\ calls = <<>>
  /\ htrackscheck_v0 = EmptyHist(V0Bins)
  /\ htrackscheck_v0_daughters = EmptyHist(V0DaughterBins)
  /\ returned = NoValue
  /\ candidates = <<>>
  /\ hfSelD0CandidateALICE3Barrel = <<>>
  /\ \E grouped \in [1..NumMcCollisions -> UNION { [1..n -> GenKinds] : n \in 1..MaxMcParticles }] :
       mcParticles = grouped
  /\ V0sMC = <<>>
  /\ passKs = <<>>
  /\ gindex1 = <<>>
  /\ gindex2 = <<>>
  /\ hMChists = EmptyMCHists
  /\ IdleJet

\* one call of processGen, on the next Monte Carlo collision of the frame
ProcessGen ==
  /\ pc < NumMcCollisions
  /\ pc' = pc + 1
  /\ \E st \in { processGen(config, GenState(passKs, daughter1, daughter2, hMChists), pc + 1,
                              mcParticles[pc + 1], << Collision(frame, pc + 1) >>) } :
       /\ passKs' = st.passKs
       /\ daughter1' = st.daughter1
       /\ daughter2' = st.daughter2
       /\ hMChists' = st.hMChists
  /\ UNCHANGED <<config, phase, frame, multiplicity, mother, isMix, calls,
                 htrackscheck_v0, htrackscheck_v0_daughters, returned, d0vars,
                 mcParticles, V0sMC, gindex1, gindex2, jetvars>>

NextGen == ProcessGen

SpecGen == InitGen /\ [][NextGen]_vars

(***************************************************************************)
(* processRec: the reconstructed V0 pairs of one collision that are        *)
(* matched to a generated resonance, one call for each collision of the    *)
(* frame. gindex1 and gindex2 are members.                                 *)
(***************************************************************************)
\* a generated particle that is a mother of K0s; its globalIndex is its
\* position in the table
RecMother(pdg, generator, y) == [ pdgCode |-> pdg, producedByGenerator |-> generator, y |-> y ]

\* 1: an f2'(1525) at mid-rapidity; 2: one at rapidity 0.7; 3: an f0(1500);
\* 4: an f2'(1525) made in the transport
RecMothers ==
  << RecMother(335, TRUE, 0), RecMother(335, TRUE, 700), RecMother(10331, TRUE, 0),
     RecMother(335, FALSE, 0) >>

\* the Monte Carlo labels of a V0 candidate: whether the candidate and its
\* daughter tracks have a generated particle, its pdg code and its mothers
McLabel(has, daughters, pdg, mothers) ==
  [ has_mcParticle |-> has, daughtersHaveMcParticle |-> daughters, pdgCode |-> pdg,
    mothers |-> mothers ]

\* label tables for the V0 table. In the first every candidate is a K0s of
\* resonance 1: the candidates in excess of two are split copies, built on
\* one track of another candidate. In the second the candidates belong to the
\* four mothers by turns. The third has a label with two mothers, a Lambda, a
\* candidate without label and one whose tracks have none
RecLabels ==
  { [i \in 1..NumV0 |-> McLabel(TRUE, TRUE, 310, <<1>>)],
    [i \in 1..NumV0 |-> McLabel(TRUE, TRUE, 310, << ((i - 1) % Len(RecMothers)) + 1 >>)],
    [i \in 1..NumV0 |->
       CASE i = 1 -> McLabel(TRUE, TRUE, 310, <<1, 2>>)
         [] i = 2 -> McLabel(TRUE, TRUE, 310, <<2, 1>>)
         [] i = 3 -> McLabel(TRUE, TRUE, 3122, <<1>>)
         [] i = 4 -> McLabel(FALSE, TRUE, 310, <<1>>)
         [] i = 5 -> McLabel(TRUE, FALSE, 310, <<1>>)
         [] OTHER -> McLabel(TRUE, TRUE, -310, <<1>>)] }

\* the loop state of processRec
RecState(mem, g1, g2, hists) ==
  [ daughter1 |-> mem.daughter1, daughter2 |-> mem.daughter2, mother |-> mem.mother,
    htrackscheck_v0 |-> mem.htrackscheck_v0,
    htrackscheck_v0_daughters |-> mem.htrackscheck_v0_daughters,
    gindex1 |-> g1, gindex2 |-> g2, hMChists |-> hists ]

\* std::find(v.begin(), v.end(), x) != v.end()
Found(v, x) == \E k \in DOMAIN v : v[k] = x

\* an entry of a reconstructed-level histogram: the collision, the mother
\* it is filled for and the pair of candidates
RecEntry(c, g, i, j) == [ collision |-> c, mother |-> g, v01 |-> i, v02 |-> j ]

\* the loop over the mothers of the second candidate's particle
RECURSIVE RecMothers2(_, _, _, _, _, _, _, _, _)
RecMothers2(cfg, mothers, st, c, i, j, g1, mothers2, b) ==
  IF b > Len(mothers2) THEN st
  ELSE LET g2 == mothers2[b]
           mothertrack1 == mothers[g1]
           mothertrack2 == mothers[g2]
           s1 == [st EXCEPT !.gindex2 = Append(@, g2)]
           d1 == KshortVector(V0Table[i])
           d2 == KshortVector(V0Table[j])
           s2 == [s1 EXCEPT !.daughter1 = d1, !.daughter2 = d2, !.mother = VecAdd(d1, d2),
                            !.hMChists.Recf1710_pt1 = Append(@, RecEntry(c, g1, i, j))]
           s3 == [s2 EXCEPT !.hMChists.Recf1710_pt2 = Append(@, RecEntry(c, g1, i, j))]
           after ==
             IF mothertrack1.pdgCode # SelectedPdg(cfg) THEN st
             ELSE IF mothertrack1.pdgCode # mothertrack2.pdgCode THEN st
             ELSE IF Len(s1.gindex2) > 1 /\ Found(s1.gindex2, g2) THEN s1
             ELSE IF g1 # g2 THEN s1
             ELSE IF ~mothertrack1.producedByGenerator THEN s1
             ELSE IF cfg.apply_rapidityMC /\ Abs(mothertrack1.y) >= 500 THEN s1
             ELSE IF cfg.applyPairRapidityRec /\ ~AbsRapidityBelow(s2.mother, 500) THEN s2
             ELSE s3
       IN RecMothers2(cfg, mothers, after, c, i, j, g1, mothers2, b + 1)

\* the loop over the mothers of the first candidate's particle, and the
\* gindex1.clear() after it
RECURSIVE RecMothers1(_, _, _, _, _, _, _, _, _)
RecMothers1(cfg, mothers, st, c, i, j, mothers1, mothers2, a) ==
  IF a > Len(mothers1) THEN [st EXCEPT !.gindex1 = <<>>]
  ELSE LET g1 == mothers1[a]
           s1 == [st EXCEPT !.gindex1 = Append(@, g1)]
           after ==
             IF Len(s1.gindex1) > 1 /\ Found(s1.gindex1, g1) THEN s1
             ELSE [RecMothers2(cfg, mothers, s1, c, i, j, g1, mothers2, 1)
                     EXCEPT !.gindex2 = <<>>]
       IN RecMothers1(cfg, mothers, after, c, i, j, mothers1, mothers2, a + 1)

\* one iteration of the pair loop of processRec; on1 and on2 are
\* CandidateCalls of v01 and v02
RecStep(cfg, mothers, labels, st, c, i, j, on1, on2) ==
  LET s1 == CountV0Daughter(st, on1.posbins)
      s2 == CountV0Daughter(s1, on2.posbins)
      s3 == CountV0Daughter(s2, on1.negbins)
      s4 == CountV0Daughter(s3, on2.negbins)
      s5 == CountV0(s4, on1.v0bins)
      s6 == CountV0(s5, on2.v0bins)
  IN IF IndexNotAfter(i, j) THEN st
     ELSE IF ~labels[i].has_mcParticle \/ ~labels[j].has_mcParticle THEN st
     ELSE IF ~labels[i].daughtersHaveMcParticle \/ ~labels[j].daughtersHaveMcParticle THEN st
     ELSE IF ~on1.pos THEN s1
     ELSE IF ~on2.pos THEN s2
     ELSE IF ~on1.neg THEN s3
     ELSE IF ~on2.neg THEN s4
     ELSE IF ~on1.selectionV0 THEN s5
     ELSE IF ~on2.selectionV0 THEN s6
     ELSE IF Abs(labels[i].pdgCode) # 310 \/ Abs(labels[j].pdgCode) # 310 THEN s6
     ELSE RecMothers1(cfg, mothers, s6, c, i, j, labels[i].mothers, labels[j].mothers, 1)

RECURSIVE RecLoop(_, _, _, _, _, _, _, _)
RecLoop(cfg, mothers, labels, st, c, pairs, k, on) ==
  IF k > Len(pairs) THEN st
  ELSE RecLoop(cfg, mothers, labels,
               RecStep(cfg, mothers, labels, st, c, pairs[k][1], pairs[k][2],
                       on[pairs[k][1]], on[pairs[k][2]]),
               c, pairs, k + 1, on)

\* processRec on collision c of the frame; every reconstructed collision has
\* a Monte Carlo collision inside cutzvertex
processRec(cfg, fr, c, mothers, labels, st) ==
  LET collision == Collision(fr, c)
      V0s == V0sOf(fr, c)
  IN IF ~cfg.isMC THEN st
     ELSE IF ~collision.sel8 THEN st
     ELSE RecLoop(cfg, mothers, labels, st, c, FullIndexPairs(V0s, V0s), 1,
                  CallsOn(cfg, collision, V0s, 1))

RecConfigs ==
  { [DefaultConfig EXCEPT !.isMC = mc, !.apply_rapidityMC = rap, !.applyPairRapidityRec = pair] :
      mc \in BOOLEAN, rap \in BOOLEAN, pair \in BOOLEAN }

InitRec ==
  /\ config \in RecConfigs
  /\ frame \in Frames
  /\ phase = "ready"
  /\ pc = 0
  /\ multiplicity = 0
  /\ daughter1 = NullVector
  /\ daughter2 = NullVector
  /\ mother = NullVector
  /\ isMix = FALSE
  /\ calls = <<>>
  /\ htrackscheck_v0 = EmptyHist(V0Bins)
  /\ htrackscheck_v0_daughters = EmptyHist(V0DaughterBins)
  /\ returned = NoValue
  /\ candidates = <<>>
  /\ hfSelD0CandidateALICE3Barrel = <<>>
  /\ mcParticles = RecMothers
  /\ V0sMC \in RecLabels
  /\ passKs = <<>>
  /\ gindex1 = <<>>
  /\ gindex2 = <<>>
  /\ hMChists = EmptyMCHists
  /\ IdleJet

\* one call of processRec, on the next collision of the frame
ProcessRec ==
  /\ pc < NumCollisions
  /\ pc' = pc + 1
  /\ \E st \in { processRec(config, frame, pc + 1, mcParticles, V0sMC,
                              RecState([daughter1 |-> daughter1, daughter2 |-> daughter2,
                                        mother |-> mother, htrackscheck_v0 |-> htrackscheck_v0,
                                        htrackscheck_v0_daughters |-> htrackscheck_v0_daughters],
                                       gindex1, gindex2, hMChists)) } :
       /\ daughter1' = st.daughter1
       /\ daughter2' = st.daughter2
       /\ mother' = st.mother
       /\ htrackscheck_v0' = st.htrackscheck_v0
       /\ htrackscheck_v0_daughters' = st.htrackscheck_v0_daughters
       /\ gindex1' = st.gindex1
       /\ gindex2' = st.gindex2
       /\ hMChists' = st.hMChists
  /\ UNCHANGED <<config, phase, frame, multiplicity, isMix, calls, returned, d0vars,
                 mcParticles, V0sMC, passKs, jetvars>>

NextRec == ProcessRec

SpecRec == InitRec /\ [][NextRec]_vars

(***************************************************************************)
(* jetHadronRecoil_OO: the histograms of the registry spectra that the     *)
(* process functions fill. Momenta and energies are in MeV, angles in      *)
(* milliradian. spectra holds the names init registered and the fills made *)
(* so far: the histogram, the row of the table that was filled and the     *)
(* number of the call.                                                     *)
(***************************************************************************)
TMathPi == 3142

JetConfig ==
  [ pTHatMaxMCD |-> 999, pTHatMaxMCP |-> 999,
    pT_TTref_min |-> 5000, pT_TTref_max |-> 7000,
    pT_TTsig_min |-> 20000, pT_TTsig_max |-> 50000,
    recoilRegion |-> 600 ]

\* the histograms init adds to the registry
RegisteredNames ==
  { "vertexZ", "hTrackPtEtaPhi", "hNtrig", "hTTRef_per_event", "hTTSig_per_event",
    "hJetPtEtaPhiRhoArea",
    "hDPhi_JetPt_Corr_TTRef", "hDPhi_JetPt_Corr_TTSig", "hDPhi_JetPt_TTRef", "hDPhi_JetPt_TTSig",
    "hRecoil_JetPt_Corr_TTRef", "hRecoil_JetPt_Corr_TTSig", "hRecoil_JetPt_TTRef",
    "hRecoil_JetPt_TTSig", "hDPhi_JetPt_RhoArea_TTRef", "hDPhi_JetPt_RhoArea_TTSig",
    "hPartPtEtaPhi", "hNtrig_Part", "hTTRef_per_event_Part", "hTTSig_per_event_Part",
    "hJetPtEtaPhiRhoArea_Part",
    "hDPhi_JetPt_Corr_TTRef_Part", "hDPhi_JetPt_Corr_TTSig_Part", "hDPhi_JetPt_TTRef_Part",
    "hDPhi_JetPt_TTSig_Part",
    "hRecoil_JetPt_Corr_TTRef_Part", "hRecoil_JetPt_Corr_TTSig_Part", "hRecoil_JetPt_TTRef_Part",
    "hRecoil_JetPt_TTSig_Part", "hDPhi_JetPt_RhoArea_TTRef_Part", "hDPhi_JetPt_RhoArea_TTSig_Part",
    "hJetPt_PartLevel_vs_DetLevel", "hJetPt_PartLevel_vs_DetLevel_RecoilJets",
    "hMissedJets_pT", "hFakeJets_pT", "hJetPt_resolution", "hJetPhi_resolution" }

\* spectra.fill(HIST(name), ...) for row `row` of the table being looped
\* over (0: a fill for the event)
SpectraFill(name, row) == [ name |-> name, row |-> row ]

\* TVector2::Phi_mpi_pi
RECURSIVE Phi_mpi_pi(_)
Phi_mpi_pi(x) ==
  IF x >= TMathPi THEN Phi_mpi_pi(x - 2 * TMathPi)
  ELSE IF x < -TMathPi THEN Phi_mpi_pi(x + 2 * TMathPi)
  ELSE x

\* static_cast<uint8_t>(e) of an energy in GeV: the value is truncated; the
\* conversion of a value of 256 or more is undefined, and `wrapped` is what
\* the build then makes of it
CastUint8(e, wrapped) ==
  IF e < 256000 THEN e \div 1000 ELSE wrapped

\* the values an out-of-range conversion can leave in a uint8_t
Uint8Sample == {0, 1, 255}

\* the rows of a table, each with its index
Indexed(table) == [n \in DOMAIN table |-> [n |-> n, row |-> table[n]]]

\* the rows a loop does not skip, in table order; keep[k] tells whether the
\* loop goes on with row k
RECURSIVE RowsWhere(_, _, _)
RowsWhere(rows, keep, k) ==
  IF k > Len(rows) THEN <<>>
  ELSE (IF keep[k] THEN << rows[k] >> ELSE <<>>) \o RowsWhere(rows, keep, k + 1)

\* whether a track or particle is a trigger-track candidate of the event
IsTTCandidate(cfg, bSig_Ev, row) ==
  \/ bSig_Ev /\ row.pt > cfg.pT_TTsig_min /\ row.pt < cfg.pT_TTsig_max
  \/ ~bSig_Ev /\ row.pt > cfg.pT_TTref_min /\ row.pt < cfg.pT_TTref_max

\* the tracks fillHistograms uses
SelectedTracks(table) ==
  RowsWhere(Indexed(table), [n \in DOMAIN table |-> table[n].selectTrack], 1)

\* the particles fillMCPHistograms uses; wrapped[n] is the outcome of an
\* out-of-range conversion of the energy of particle n
UsedParticles(table, wrapped) ==
  LET bIsParticleNeutral(n) == CastUint8(table[n].e, wrapped[n]) = 0
  IN RowsWhere(Indexed(table),
               [n \in DOMAIN table |-> ~(bIsParticleNeutral(n) \/ ~table[n].isPhysicalPrimary)],
               1)

\* phi_of_TT_cand: the rows of `used` that are trigger-track candidates
TTCandidates(cfg, bSig_Ev, used) ==
  RowsWhere(used, [k \in DOMAIN used |-> IsTTCandidate(cfg, bSig_Ev, used[k].row)], 1)

\* the fills of one histogram for every row of a list
FillEach(name, rows) == [k \in DOMAIN rows |-> SpectraFill(name, rows[k].n)]

\* the fills for the trigger track, when there is one
TriggerFills(bSig_Ev, nTT, suffix) ==
  IF nTT = 0 THEN <<>>
  ELSE IF bSig_Ev
    THEN << SpectraFill("hNtrig" \o suffix, 0), SpectraFill("hTTSig_per_event" \o suffix, 0) >>
    ELSE << SpectraFill("hNtrig" \o suffix, 0), SpectraFill("hTTRef_per_event" \o suffix, 0) >>

\* whether a jet lies in the recoil region of the trigger track
IsRecoil(cfg, jet, phi_TT) ==
  (TMathPi - cfg.recoilRegion) < Abs(Phi_mpi_pi(jet.phi - phi_TT))

\* the body of the jet loop of fillHistograms
JetFills(cfg, bSig_Ev, nTT, phi_TT, jet, n) ==
  << SpectraFill("hJetPtEtaPhiRhoArea", n) >>
  \o (IF nTT = 0 THEN <<>>
      ELSE IF bSig_Ev
        THEN << SpectraFill("hDPhi_JetPt_Corr_TTSig", n), SpectraFill("hDPhi_JetPt_TTSig", n),
                SpectraFill("hDPhi_JetPt_RhoArea_TTSig", n) >>
             \o (IF IsRecoil(cfg, jet, phi_TT)
                   THEN << SpectraFill("hRecoil_JetPt_Corr_TTSig", n),
                           SpectraFill("hRecoil_JetPt_TTSig", n) >>
                   ELSE <<>>)
        ELSE << SpectraFill("hDPhi_JetPt_Corr_TTRef", n), SpectraFill("hDPhi_JetPt_TTRef", n),
                SpectraFill("hDPhi_JetPt_RhoArea_TTRef", n) >>
             \o (IF IsRecoil(cfg, jet, phi_TT)
                   THEN << SpectraFill("hRecoil_JetPt_Corr_TTRef", n),
                           SpectraFill("hRecoil_JetPt_TTRef", n) >>
                   ELSE <<>>))

\* the body of the jet loop of fillMCPHistograms
MCPJetFills(cfg, bSig_Ev, nTT, phi_TT, pTHat, jet, n) ==
  IF jet.pt > cfg.pTHatMaxMCP * pTHat THEN <<>>
  ELSE << SpectraFill("hJetPtEtaPhiRhoArea_Part", n) >>
  \o (IF nTT = 0 THEN <<>>
      ELSE IF bSig_Ev
        THEN << SpectraFill("hDPhi_JetPt_Corr_TTSig_Part", n),
                SpectraFill("hDPhi_JetPt_TTSig_Part", n),
                SpectraFill("hDPhi_JetPt_RhoArea_TTSig_Part", n) >>
             \o (IF IsRecoil(cfg, jet, phi_TT)
                   THEN << SpectraFill("hRecoil_JetPt_Corr_TTSig_Part", n),
                           SpectraFill("hRecoil_JetPt_TTSig_Part", n) >>
                   ELSE <<>>)
        ELSE << SpectraFill("hDPhi_JetPt_Corr_TTRef_Part", n),
                SpectraFill("hDPhi_JetPt_TTRef_Part", n),
                SpectraFill("hDPhi_JetPt_RhoArea_TTRef_Part", n) >>
             \o (IF IsRecoil(cfg, jet, phi_TT)
                   THEN << SpectraFill("hRecoil_JetPt_Corr_TTRef_Part", n),
                           SpectraFill("hRecoil_JetPt_TTRef_Parht", n) >>
                   ELSE <<>>))

\* the fills of a loop: those of its iterations, in order
RECURSIVE ConcatEach(_, _)
ConcatEach(fills, n) ==
  IF n > Len(fills) THEN <<>> ELSE fills[n] \o ConcatEach(fills, n + 1)

\* fillHistograms: bSig_Ev is the outcome of the dice, iTrig of
\* rand->Integer(nTT) (counted from 1)
fillHistograms(cfg, jets_, tracks_, bSig_Ev, iTrig) ==
  LET used == SelectedTracks(tracks_)
      phi_of_TT_cand == TTCandidates(cfg, bSig_Ev, used)
      nTT == Len(phi_of_TT_cand)
      phi_TT == IF nTT > 0 THEN phi_of_TT_cand[iTrig].row.phi ELSE 0
  IN FillEach("hTrackPtEtaPhi", used)
     \o TriggerFills(bSig_Ev, nTT, "")
     \o ConcatEach([n \in DOMAIN jets_ |-> JetFills(cfg, bSig_Ev, nTT, phi_TT, jets_[n], n)], 1)

\* pTHat = 10 / weight^(1 / pTHatExponent), in MeV, for an event weight
\* 1 / invWeight and the exponent 6
PTHat(invWeight) == 10000 * (CHOOSE r \in 1..10 : r * r * r * r * r * r = invWeight)

fillMCPHistograms(cfg, jets_, particles_, invWeight, bSig_Ev, iTrig, wrapped) ==
  LET used == UsedParticles(particles_, wrapped)
      phi_of_TT_cand == TTCandidates(cfg, bSig_Ev, used)
      nTT == Len(phi_of_TT_cand)
      phi_TT == IF nTT > 0 THEN phi_of_TT_cand[iTrig].row.phi ELSE 0
  IN FillEach("hPartPtEtaPhi", used)
     \o TriggerFills(bSig_Ev, nTT, "_Part")
     \o ConcatEach([n \in DOMAIN jets_ |->
                      MCPJetFills(cfg, bSig_Ev, nTT, phi_TT, PTHat(invWeight), jets_[n], n)], 1)

\* the body of the loop of fillMatchedHistograms over the detector-level jets
MatchedJetFills(cfg, pTHat, jet_det_level, n) ==
  IF jet_det_level.pt > cfg.pTHatMaxMCD * pTHat THEN <<>>
  ELSE IF jet_det_level.has_matchedJetGeo
    THEN ConcatEach([k \in DOMAIN jet_det_level.matchedJetGeo |->
                      << SpectraFill("hJetPt_PartLevel_vs_DetLevel", n),
                         SpectraFill("hJetPt_resolution", n),
                         SpectraFill("hJetPhi_resolution", n) >>], 1)
    ELSE << SpectraFill("hFakeJets_pT", n) >>

fillMatchedHistograms(cfg, jets_det_level, jets_part_level, invWeight) ==
  ConcatEach([n \in DOMAIN jets_det_level |->
                MatchedJetFills(cfg, PTHat(invWeight), jets_det_level[n], n)], 1)
  \o FillEach("hMissedJets_pT",
               RowsWhere(Indexed(jets_part_level),
                         [n \in DOMAIN jets_part_level |-> ~jets_part_level[n].has_matchedJetGeo],
                         1))

\* the tables of a data frame of the jet-hadron recoil task
JetTrack(pt, phi, selected) == [ pt |-> pt, phi |-> phi, selectTrack |-> selected ]

\* a reference trigger track; a signal and a reference trigger track and a
\* track failing the track selection
JetTrackTables ==
  { << JetTrack(6000, 0, TRUE), JetTrack(1000, 1000, TRUE) >>,
    << JetTrack(25000, 0, TRUE), JetTrack(6000, 3000, TRUE), JetTrack(30000, 200, FALSE) >> }

Jet(pt, phi, matched) ==
  [ pt |-> pt, phi |-> phi, has_matchedJetGeo |-> matched # <<>>, matchedJetGeo |-> matched ]

\* detector-level jets: one opposite to a trigger track at phi = 0 and
\* matched to particle-level jet 1, one unmatched outside the recoil region
DetLevelJets == << Jet(30000, 3100, <<1>>), Jet(15000, 500, <<>>) >>

\* particle-level jets: one matched, opposite to a trigger particle at
\* phi = 0, and one unmatched
PartLevelJets == << Jet(28000, 3100, <<1>>), Jet(8000, 400, <<>>) >>

\* a generated particle: its energy, pt, phi, its electric charge (in units
\* of e / 3, from its pdg code) and whether it is a physical primary
JetParticle(e, pt, phi, charge, primary) ==
  [ e |-> e, pt |-> pt, phi |-> phi, charge |-> charge, isPhysicalPrimary |-> primary ]

\* a charged primary in the reference and one in the signal trigger range, a
\* charged primary below 1 GeV, a neutral primary, a charged secondary and a
\* charged primary of 300 GeV
JetParticleKinds ==
  { JetParticle(6100, 6000, 0, 3, TRUE),
    JetParticle(25000, 24000, 0, -3, TRUE),
    JetParticle(600, 400, 1000, 3, TRUE),
    JetParticle(6100, 6000, 0, 0, TRUE),
    JetParticle(6100, 6000, 2000, -3, FALSE),
    JetParticle(300000, 6000, 0, 3, TRUE) }

\* the collision of the frame: its selection bits and its event weight, as
\* 1 / weight
JetCollision(border, selected, invWeight) ==
  [ kNoTimeFrameBorder |-> border, selectCollision |-> selected, invWeight |-> invWeight ]

JetCollisions ==
  { JetCollision(TRUE, TRUE, 1), JetCollision(TRUE, TRUE, 1000000),
    JetCollision(FALSE, TRUE, 1), JetCollision(TRUE, FALSE, 1) }

\* the defaults, and jets accepted up to 2 pTHat only
JetConfigs ==
  { [JetConfig EXCEPT !.pTHatMaxMCD = f, !.pTHatMaxMCP = f] : f \in {999, 2} }

InitJet ==
  /\ config \in JetConfigs
  /\ frame \in JetCollisions
  /\ phase = "constructed"
  /\ pc = 0
  /\ multiplicity = 0
  /\ daughter1 = NullVector
  /\ daughter2 = NullVector
  /\ mother = NullVector
  /\ isMix = FALSE
  /\ calls = <<>>
  /\ htrackscheck_v0 = EmptyHist(V0Bins)
  /\ htrackscheck_v0_daughters = EmptyHist(V0DaughterBins)
  /\ returned = NoValue
  /\ candidates = <<>>
  /\ hfSelD0CandidateALICE3Barrel = <<>>
  /\ IdleMC
  /\ tracks \in JetTrackTables
  /\ jets = DetLevelJets
  /\ mcpjets = PartLevelJets
  /\ \E n \in 1..MaxJetParticles : particles \in [1..n -> JetParticleKinds]
  /\ spectra = [registered |-> {}, fills |-> <<>>]

\* what a process function leaves: the fills of the call appended to the
\* registry, each with the number of the call
JetCall(name, fills) ==
  /\ phase = "ready"
  /\ pc < MaxJetCalls
  /\ pc' = pc + 1
  /\ returned' = [call |-> name]
  /\ spectra' = [spectra EXCEPT !.fills =
                   @ \o [k \in DOMAIN fills |->
                           [name |-> fills[k].name, row |-> fills[k].row, call |-> pc + 1]]]
  /\ UNCHANGED <<config, phase, frame, multiplicity, daughter1, daughter2, mother, isMix, calls,
                 htrackscheck_v0, htrackscheck_v0_daughters, d0vars, mcvars,
                 tracks, jets, particles, mcpjets>>

InitJetTask ==
  /\ phase = "constructed"
  /\ phase' = "ready"
  /\ spectra' = [spectra EXCEPT !.registered = RegisteredNames]
  /\ UNCHANGED <<config, frame, pc, multiplicity, daughter1, daughter2, mother, isMix, calls,
                 htrackscheck_v0, htrackscheck_v0_daughters, returned, d0vars, mcvars,
                 tracks, jets, particles, mcpjets>>

bEventSkip(collision) == ~collision.kNoTimeFrameBorder \/ ~collision.selectCollision

\* the outcomes of rand->Integer(nTT), counted from 1 (1 when it is not drawn)
TrigDraws(cfg, bSig_Ev, used) ==
  IF TTCandidates(cfg, bSig_Ev, used) = <<>> THEN {1}
  ELSE 1..Len(TTCandidates(cfg, bSig_Ev, used))

\* processData, processMC_DetLevel and processMC_DetLevel_Weighted: the
\* weight only scales the fills
DetLevelCall(name) ==
  IF bEventSkip(frame) THEN JetCall(name, <<>>)
  ELSE \E bSig_Ev \in BOOLEAN : \E iTrig \in TrigDraws(config, bSig_Ev, SelectedTracks(tracks)) :
         JetCall(name, << SpectraFill("vertexZ", 0) >>
                       \o fillHistograms(config, jets, tracks, bSig_Ev, iTrig))

ProcessData == DetLevelCall("processData")

ProcessMC_DetLevel == DetLevelCall("processMC_DetLevel")

ProcessMC_DetLevel_Weighted == DetLevelCall("processMC_DetLevel_Weighted")

\* processMC_PartLevel and processMC_PartLevel_Weighted
PartLevelCall(name, invWeight) ==
  \E bSig_Ev \in BOOLEAN : \E wrapped \in [DOMAIN particles -> Uint8Sample] :
    \E iTrig \in TrigDraws(config, bSig_Ev, UsedParticles(particles, wrapped)) :
      JetCall(name, << SpectraFill("vertexZ", 0) >>
                    \o fillMCPHistograms(config, mcpjets, particles, invWeight, bSig_Ev, iTrig,
                                         wrapped))

ProcessMC_PartLevel == PartLevelCall("processMC_PartLevel", 1)

ProcessMC_PartLevel_Weighted == PartLevelCall("processMC_PartLevel_Weighted", frame.invWeight)

\* processJetsMCPMCDMatched and processJetsMCPMCDMatchedWeighted
MatchedCall(name, invWeight) ==
  IF bEventSkip(frame) THEN JetCall(name, <<>>)
  ELSE JetCall(name, fillMatchedHistograms(config, jets, mcpjets, invWeight))

ProcessJetsMCPMCDMatched == MatchedCall("processJetsMCPMCDMatched", 1)

ProcessJetsMCPMCDMatchedWeighted ==
  MatchedCall("processJetsMCPMCDMatchedWeighted", frame.invWeight)

NextJet ==
  \/ InitJetTask
  \/ ProcessData
  \/ ProcessMC_DetLevel
  \/ ProcessMC_DetLevel_Weighted
  \/ ProcessMC_PartLevel
  \/ ProcessMC_PartLevel_Weighted
  \/ ProcessJetsMCPMCDMatched
  \/ ProcessJetsMCPMCDMatchedWeighted

SpecJet == InitJet /\ [][NextJet]_vars

(***************************************************************************)
(* Properties of the pairing handlers (specification Spec).                *)
(* calls holds the fillInvMass calls of the handler that ran last.         *)
(***************************************************************************)
\* the handler that produced the current value of calls
LastHandler == Handler(pc)

SameEventRan == LastHandler \in {"processSE", "processSEderived"}

\* the collision the same-event handler that ran last was given
LastCollision == IF pc <= NumCollisions THEN pc ELSE pc - (NumCollisions + 1)

\* the two candidates of call k
First(k) == V0Table[calls[k].src.v1]

Second(k) == V0Table[calls[k].src.v2]

TrackIds(cand) == {cand.posTrackId, cand.negTrackId}

\* the collision passes the event cuts a handler applies under the configuration
EventKept(c) ==
  /\ eventselection(config, Collision(frame, c))
  /\ config.requireRCTFlagChecker => rctChecker(Collision(frame, c))

\* candidate i lies in collision c and passes the single-candidate selection
SelectedIn(c, i) ==
  /\ \E k \in DOMAIN V0sOf(frame, c) : V0sOf(frame, c)[k] = i
  /\ selectionV0(config, Collision(frame, c), V0Table[i])

\* C1: a pair of candidates made of the same positive and the same negative
\* daughter track is never passed to fillInvMass, neither by the same-event
\* handlers nor by the mixed-event handlers.
C1_IdenticalTracksExcluded ==
  \A k \in DOMAIN calls :
    ~(First(k).posTrackId = Second(k).posTrackId /\ First(k).negTrackId = Second(k).negTrackId)

\* candidates 1 and 2 (the same two tracks) were both selected and met in the
\* pair loop of the mixed-event handler, one from each event of an event pair
C1_Witness ==
  /\ LastHandler = "processME"
  /\ EventKept(1) /\ EventKept(2)
  /\ SelectedIn(1, 1) /\ SelectedIn(2, 2)
  /\ DaughtersSelected(config, V0Table[1]) /\ DaughtersSelected(config, V0Table[2])
  /\ calls # <<>>

\* C2: the two candidates of every pair passed to fillInvMass have no daughter
\* track in common, the positive daughter of one being the negative daughter
\* of the other included.
C2_DisjointTrackSets ==
  \A k \in DOMAIN calls : TrackIds(First(k)) \cap TrackIds(Second(k)) = {}

\* candidates 5 and 6 (the negative daughter of 5 is the positive daughter of
\* 6) met in the pair loop of processSE, both passing selectionV0, and the
\* handler recorded another pair of the event
C2_Witness ==
  /\ LastHandler = "processSE"
  /\ EventKept(LastCollision)
  /\ SelectedIn(LastCollision, 5) /\ SelectedIn(LastCollision, 6)
  /\ V0Table[5].negTrackId = V0Table[6].posTrackId
  /\ calls # <<>>

\* C3: in one run of a same-event handler a pair is passed to fillInvMass
\* only with the second candidate's global index strictly greater than the
\* first's: no candidate is paired with itself and no two candidates are
\* recorded in both orders.
C3_OrderedOnce ==
  SameEventRan =>
    /\ \A k \in DOMAIN calls : calls[k].src.v1 < calls[k].src.v2
    /\ \A k, l \in DOMAIN calls :
         ~(calls[k].src.v1 = calls[l].src.v2 /\ calls[k].src.v2 = calls[l].src.v1)
    /\ \A k, l \in DOMAIN calls : calls[k].src = calls[l].src => k = l

\* processSE ran over an event with three selected candidates and recorded
\* two pairs of them, each once
C3_Witness ==
  /\ LastHandler = "processSE"
  /\ Len(calls) = 2
  /\ calls[1].src.v1 < calls[1].src.v2
  /\ calls[2].src.v1 < calls[2].src.v2
  /\ Cardinality({ i \in 1..NumV0 : SelectedIn(LastCollision, i) }) >= 3

\* the arguments of the recorded calls, as FillArgs built them
CallArgs ==
  [ k \in DOMAIN calls |->
      [ src |-> calls[k].src, mother |-> calls[k].res.mother,
        multiplicity |-> calls[k].res.multiplicity, daughter1 |-> calls[k].res.daughter1,
        daughter2 |-> calls[k].res.daughter2, isMix |-> calls[k].res.isMix ] ]

\* the same-event handler that ran last, run again on the same collision
\* with selectTWOKsOnly switched
OtherMode ==
  processSE([config EXCEPT !.selectTWOKsOnly = ~config.selectTWOKsOnly], frame, LastCollision,
            Members(0, NullVector, NullVector, NullVector, FALSE,
                    EmptyHist(V0Bins), EmptyHist(V0DaughterBins)))

\* C4 (as stated): for every event, same-event processing records the same
\* pairs with selectTWOKsOnly = true as with selectTWOKsOnly = false.
C4_SameInEveryEvent ==
  SameEventRan => \A other \in {OtherMode} : CallArgs = other.args

\* C4 (amended): in an event where at most two candidates pass the selection
\* both modes make the same fillInvMass calls, with the same arguments; in an
\* event with more than two selected candidates selectTWOKsOnly = true
\* records nothing, whatever the full enumeration records.
C4_SameUpToTwoSelected ==
  SameEventRan =>
    \A other \in {OtherMode} :
      /\ Len(other.v0indexes) <= 2 => CallArgs = other.args
      /\ (Len(other.v0indexes) > 2 /\ config.selectTWOKsOnly) => calls = <<>>

\* processSE ran with selectTWOKsOnly = true over an event with exactly two
\* selected candidates and recorded their pair after the loop
C4_Witness ==
  /\ LastHandler = "processSE"
  /\ config.selectTWOKsOnly
  /\ Len(calls) = 1
  /\ \A other \in {OtherMode} : Len(other.v0indexes) = 2 /\ CallArgs = other.args

\* C5 (as stated): with applyAngSepCut enabled, no pair that fails
\* applyAngSep is passed to fillInvMass, in same-event and in mixed-event
\* pairing alike.
C5_AngSepInBothModes ==
  \A k \in DOMAIN calls : applyAngSep(config, First(k), Second(k))

\* none of the four activateTHnSparseCosThStar flags is set
NoPolicyFlag ==
  /\ ~config.activateTHnSparseCosThStarHelicity
  /\ ~config.activateTHnSparseCosThStarProduction
  /\ ~config.activateTHnSparseCosThStarBeam
  /\ ~config.activateTHnSparseCosThStarRandom

\* C9: with no reference-axis flag enabled init ends in the fatal error, no
\* process function runs and nothing is recorded.
C9_FatalWithoutPolicy ==
  NoPolicyFlag => (phase # "ready" /\ pc = 0 /\ calls = <<>>)

\* init ran under a configuration without any reference-axis flag
C9_Witness ==
  /\ NoPolicyFlag
  /\ phase = "fatal"

(***************************************************************************)
(* Properties of fillInvMass (specification SpecFill).                     *)
(***************************************************************************)
\* the entries call k made in the histogram hist
EntriesIn(k, hist) == { i \in DOMAIN calls[k].res.fills : calls[k].res.fills[i].hist = hist }

\* C6 (as stated): with rotationalCut = 10 no rotation angle is drawn inside
\* the band from pi - pi/10 to pi + pi/10.
C6_NeverInsideBand ==
  \A k \in DOMAIN calls : \A i \in DOMAIN calls[k].res.theta2 :
    config.rotationalCut = 10 =>
      ~(PI - PI \div 10 < calls[k].res.theta2[i] /\ calls[k].res.theta2[i] < PI + PI \div 10)

\* C6 (amended): every rotation angle is drawn from the band around pi, from
\* pi - pi/rotationalCut to pi + pi/rotationalCut (pi - pi/10 to pi + pi/10
\* with rotationalCut = 10), and one angle is drawn for each of the cRotations
\* rotated samples of a same-event pair.
C6_AlwaysInsideBand ==
  \A k \in DOMAIN calls :
    /\ \A i \in DOMAIN calls[k].res.theta2 :
         /\ PI - PI \div config.rotationalCut <= calls[k].res.theta2[i]
         /\ calls[k].res.theta2[i] <= PI + PI \div config.rotationalCut
    /\ ~calls[k].res.isMix => Len(calls[k].res.theta2) = config.cRotations

\* a same-event call under rotationalCut = 10 drew two angles, pi - pi/10 and pi
C6_Witness ==
  /\ config.rotationalCut = 10
  /\ Len(calls) = 1
  /\ ~calls[1].res.isMix
  /\ Len(calls[1].res.theta2) = 2
  /\ calls[1].res.theta2[1] = PI - PI \div 10
  /\ calls[1].res.theta2[2] = PI

\* C7 (as stated): under every reference axis a rotated entry carries the
\* mass and the pT of daughter1 rotated by the drawn angle plus daughter2.
C7_RotatesDaughterOne ==
  \A k \in DOMAIN calls : \A i \in EntriesIn(k, "h3glueInvMassRot") :
    \A e \in { calls[k].res.fills[i] } :
      \A composite \in { VecAdd(RotateXY(calls[k].res.daughter1, calls[k].res.theta2[e.sample]),
                                calls[k].res.daughter2) } :
        e.m = composite.m /\ e.pt = Pt(composite)

\* C8: every fillInvMass call under a configuration init accepts evaluates
\* exactly one reference axis, all its entries carry the cosThetaStar of that
\* axis, and it makes at most one entry in h3glueInvMassDS and h3glueInvMassME
\* together.
C8_OnePolicyPerCall ==
  \A k \in DOMAIN calls :
    /\ Cardinality(calls[k].res.axes) = 1
    /\ \A i \in DOMAIN calls[k].res.fills : calls[k].res.fills[i].cosThetaStar \in calls[k].res.axes
    /\ Cardinality(EntriesIn(k, "h3glueInvMassDS") \cup EntriesIn(k, "h3glueInvMassME")) <= 1

\* a call under a configuration with all four flags set made its one primary entry
C8_Witness ==
  /\ \A n \in DOMAIN Sparses(config) : Sparses(config)[n]
  /\ Len(calls) = 1
  /\ Cardinality(EntriesIn(1, "h3glueInvMassDS")) = 1

\* C10: a same-event call makes an entry in h3glueInvMassDS exactly when the
\* rapidity of the pair satisfies |y| < 0.5, under every reference axis, and
\* the entry carries the mass and the pT of the pair.
C10_PrimaryGate ==
  \A k \in DOMAIN calls :
    ~calls[k].res.isMix =>
      \A m \in { calls[k].res.mother } :
        /\ EntriesIn(k, "h3glueInvMassDS") # {}
             <=> (-(Energy(m) * Tanh(500)) < m.pz * 1000 /\ m.pz * 1000 < Energy(m) * Tanh(500))
        /\ \A i \in EntriesIn(k, "h3glueInvMassDS") :
             calls[k].res.fills[i].m = m.m /\ calls[k].res.fills[i].pt = Pt(m)

\* a same-event call for a pair with rapidity y <= -0.5 made no primary entry
C10_Witness ==
  /\ Len(calls) = 1
  /\ ~calls[1].res.isMix
  /\ calls[1].res.mother.pz * 1000 <= -(Energy(calls[1].res.mother) * Tanh(500))
  /\ EntriesIn(1, "h3glueInvMassDS") = {}

\* the rotated composite behind entry i of call k
RotatedComposite(k, i) ==
  MotherRot(calls[k].res.fills[i].cosThetaStar, calls[k].res.mother, calls[k].res.daughter1,
            calls[k].res.daughter2, calls[k].res.theta2[calls[k].res.fills[i].sample])

\* C11 (as stated): under every reference axis an entry is made in
\* h3glueInvMassRot only if the rapidity of the rotated composite satisfies
\* both y < 0.5 and y > -0.5.
C11_RotatedGateBothSides ==
  \A k \in DOMAIN calls : \A i \in EntriesIn(k, "h3glueInvMassRot") :
    \A v \in { RotatedComposite(k, i) } :
      -(Energy(v) * Tanh(500)) < v.pz * 1000 /\ v.pz * 1000 < Energy(v) * Tanh(500)


(***************************************************************************)
(* Properties of the selection functions (specification SpecSel).          *)
(***************************************************************************)
\* orders the n cuts can be evaluated in: the order of the code, its reverse,
\* and every exchange of two cuts
CutOrders(n) ==
  { [k \in 1..n |-> k], [k \in 1..n |-> n + 1 - k] }
    \cup { [k \in 1..n |-> IF k = a THEN b ELSE IF k = b THEN a ELSE k] : a, b \in 1..n }

\* the cuts of the candidate the last selectionV0 call was given
ReturnedV0Cuts == V0Cuts(config, Collision(frame, 1), returned.candidate)

\* C12: selectionV0 returns true if and only if every cut passes, and
\* evaluating the cuts in another order, stopping at the first failing one,
\* gives the same boolean.
C12_AllCutsInAnyOrder ==
  returned.call = "selectionV0" =>
    \A cuts \in { ReturnedV0Cuts } :
      /\ returned.value <=> \A k \in DOMAIN cuts : cuts[k].pass
      /\ \A order \in CutOrders(Len(cuts)) :
           returned.value <=>
             PassedBefore([k \in DOMAIN cuts |-> cuts[order[k]]], 1) = Len(cuts)

\* a candidate failing two cuts (cosPA and the mass window) was rejected
C12_Witness ==
  /\ returned.call = "selectionV0"
  /\ ~returned.value
  /\ Cardinality({ k \in DOMAIN ReturnedV0Cuts : ~ReturnedV0Cuts[k].pass }) = 2


\* C19: the counts of htrackscheck_v0 never increase from one step to the
\* next, and a call of selectionV0 increments step k exactly when the
\* candidate passed every cut evaluated before step k.
C19_V0CutFlowInOrder ==
  /\ [](\A b \in V0Bins \ {0} : htrackscheck_v0[b] <= htrackscheck_v0[b - 1])
  /\ [][returned'.call = "selectionV0" =>
          \A cuts \in { V0Cuts(config, Collision(frame, 1), returned'.candidate) } :
            \A b \in V0Bins :
              htrackscheck_v0'[b] =
                htrackscheck_v0[b] + (IF \A n \in 1..b : cuts[n].pass THEN 1 ELSE 0)]_vars

\* two calls: one candidate passed every counted cut, the other stopped at
\* the cosPA cut before step 5
C19_Witness ==
  /\ htrackscheck_v0[0] = 2
  /\ htrackscheck_v0[4] = 2
  /\ htrackscheck_v0[5] = 1
  /\ htrackscheck_v0[10] = 1


\* the counts of a histogram never increase along the given steps
NonIncreasing(hist, steps) ==
  \A k \in 2..Len(steps) : hist[steps[k]] <= hist[steps[k - 1]]

\* C20 (as stated): for every configuration, globalTracks enabled or
\* disabled, the count at each step of htrackscheck_v0_daughters is less than
\* or equal to the count at the preceding step.
C20_DaughterCutFlowEveryStep ==
  \A b \in V0DaughterBins \ {0} :
    htrackscheck_v0_daughters[b] <= htrackscheck_v0_daughters[b - 1]

\* C20 (amended): with globalTracks disabled the counts never increase from
\* one step to the next; with globalTracks enabled steps 2 and 3 are never
\* filled and the counts never increase along the steps 0, 1, 4, 5, 6, 7, 8.
C20_DaughterCutFlowFilledSteps ==
  IF ~config.globalTracks
    THEN NonIncreasing(htrackscheck_v0_daughters, <<0, 1, 2, 3, 4, 5, 6, 7, 8>>)
    ELSE /\ htrackscheck_v0_daughters[2] = 0
         /\ htrackscheck_v0_daughters[3] = 0
         /\ NonIncreasing(htrackscheck_v0_daughters, <<0, 1, 4, 5, 6, 7, 8>>)

\* globalTracks enabled, two calls: one track passed the global-track
\* requirement, the other did not
C20_Witness ==
  /\ config.globalTracks
  /\ htrackscheck_v0_daughters[1] = 2
  /\ htrackscheck_v0_daughters[3] = 0
  /\ htrackscheck_v0_daughters[4] = 1


(***************************************************************************)
(* Properties of the pairing handlers (specification Spec): the calls of   *)
(* the selection functions and the event pairs of the mixed-event handlers.*)
(***************************************************************************)
\* the candidates of collision c, as a set of global indices
V0Set(c) == { V0sOf(frame, c)[k] : k \in DOMAIN V0sOf(frame, c) }

\* the daughters of candidate i pass isSelectedV0Daughter
NegSelected(i) ==
  isSelectedV0Daughter(config, TrackTable[V0Table[i].negTrackId], -1,
                       TrackTable[V0Table[i].negTrackId].tpcNSigmaPi)

PosSelected(i) ==
  isSelectedV0Daughter(config, TrackTable[V0Table[i].posTrackId], 1,
                       TrackTable[V0Table[i].posTrackId].tpcNSigmaPi)

\* the same-event handler taking the step runs on collision c
SameEventStepOn(c) ==
  /\ pc' = pc + 1
  /\ Handler(pc') \in {"processSE", "processSEderived"}
  /\ c = IF pc' <= NumCollisions THEN pc' ELSE pc' - (NumCollisions + 1)

\* C18 (as stated): a same-event handler calls selectionV0 and
\* isSelectedV0Daughter only for the pairs of the cross product whose second
\* global index exceeds the first, so it makes at most two selectionV0 calls
\* and four isSelectedV0Daughter calls for each such pair.
C18_CutsOnOrderedPairsOnly ==
  [][\A c \in 1..NumCollisions : SameEventStepOn(c) =>
       \A ordered \in { Cardinality({ p \in V0Set(c) \X V0Set(c) : p[1] < p[2] }) } :
         /\ htrackscheck_v0'[0] - htrackscheck_v0[0] <= 2 * ordered
         /\ htrackscheck_v0_daughters'[0] - htrackscheck_v0_daughters[0] <= 4 * ordered]_vars

\* C18 (amended): on a collision that passes the event cuts a same-event
\* handler calls selectionV0 on the first candidate of every pair of the full
\* cross product, reversed pairs and self-pairs included, on the second when
\* the first passed, and isSelectedV0Daughter on the daughters of every pair
\* whose two candidates passed, up to the first daughter that fails; the
\* comparison of the global indices comes after these calls.
C18_CutsOnEveryPair ==
  [][\A c \in 1..NumCollisions : (SameEventStepOn(c) /\ EventKept(c)) =>
       \A S \in { V0Set(c) } : \A sel \in { { i \in S : SelectedIn(c, i) } } :
         /\ htrackscheck_v0'[0] - htrackscheck_v0[0]
              = Cardinality(S \X S) + Cardinality(sel \X S)
         /\ htrackscheck_v0_daughters'[0] - htrackscheck_v0_daughters[0]
              = Cardinality(sel \X sel)
                + Cardinality({ p \in sel \X sel : NegSelected(p[1]) })
                + Cardinality({ p \in sel \X sel : NegSelected(p[1]) /\ PosSelected(p[1]) })
                + Cardinality({ p \in sel \X sel :
                                  NegSelected(p[1]) /\ PosSelected(p[1]) /\ PosSelected(p[2]) })]_vars

\* processSE ran on a first collision holding a single candidate, which is
\* selected: the self-pair went through both selectionV0 calls and the four
\* isSelectedV0Daughter calls
C18_Witness ==
  /\ pc = 1
  /\ EventKept(1)
  /\ Cardinality(V0Set(1)) = 1
  /\ htrackscheck_v0[0] = 2
  /\ htrackscheck_v0_daughters[0] = 4
  /\ calls = <<>>


MixedEventRan == LastHandler \in {"processME", "processMEderived"}

MixedEventKept(c) ==
  /\ eventselection(config, Collision(frame, c))
  /\ (config.requireRCTFlagChecker /\ (LastHandler = "processMEderived" \/ config.cfgMultFOTM))
       => rctChecker(Collision(frame, c))

\* candidates i of collision c1 and j of collision c2 pass every cut of the
\* candidate-pair loop of the mixed-event handlers
MixedPairPasses(c1, i, c2, j) ==
  /\ SelectedIn(c1, i) /\ SelectedIn(c2, j)
  /\ ~SharesTrack(V0Table[i], V0Table[j])
  /\ PosSelected(i) /\ PosSelected(j) /\ NegSelected(i) /\ NegSelected(j)

\* C17 (as stated): the rejection of one event pair by eventselection or by
\* the RCT flag check never stops a mixed-event handler: every event pair
\* whose two collisions pass the event cuts is processed, so each of its
\* candidate pairs that passes the cuts is passed to fillInvMass.
C17_LaterEventPairsProcessed ==
  MixedEventRan =>
    \A evpairs \in { EventPairs(config, frame) } : \A n \in DOMAIN evpairs :
      \A c1 \in { evpairs[n][1] } : \A c2 \in { evpairs[n][2] } :
        (MixedEventKept(c1) /\ MixedEventKept(c2)) =>
          \A i \in V0Set(c1), j \in V0Set(c2) :
            MixedPairPasses(c1, i, c2, j) =>
              \E k \in DOMAIN calls :
                calls[k].src = [c1 |-> c1, v1 |-> i, c2 |-> c2, v2 |-> j]


(***************************************************************************)
(* Properties of fillInvMass (specification SpecFill): the composite of    *)
(* two back-to-back daughters.                                             *)
(***************************************************************************)
\* daughter1 = (1.0, 0, 0) GeV/c and daughter2 = (-1.0, 0, 0) GeV/c, both with
\* the K0s mass
BackToBack ==
  /\ daughter1 = PxPyPzMVector(10000, 0, 0, MassK0Short)
  /\ daughter2 = PxPyPzMVector(-10000, 0, 0, MassK0Short)

\* C15 (as stated): the composite of the two back-to-back daughters has
\* pT = 0 and invariant mass 2 x 0.4976 GeV.
C15_MassIsTwiceK0sMass ==
  BackToBack => (Pt(mother) = 0 /\ mother.m = 2 * MassK0Short)

\* C15 (amended): the composite of the two back-to-back daughters is their
\* four-vector sum: pT = 0 and invariant mass equal to the sum of the two
\* energies, 2 x sqrt(1.0^2 + 0.4976^2) = 2.2338 GeV; a same-event call
\* records this mass and pT = 0 in h3glueInvMassDS.
C15_MassIsSumOfEnergies ==
  BackToBack =>
    /\ Pt(mother) = 0
    /\ mother.m = Energy(daughter1) + Energy(daughter2)
    /\ mother.m = 22338
    /\ \A k \in DOMAIN calls : \A i \in EntriesIn(k, "h3glueInvMassDS") :
         calls[k].res.fills[i].m = 22338 /\ calls[k].res.fills[i].pt = 0

\* a same-event call on the back-to-back pair made its primary entry
C15_Witness ==
  /\ BackToBack
  /\ Len(calls) = 1
  /\ ~calls[1].res.isMix
  /\ EntriesIn(1, "h3glueInvMassDS") # {}


(***************************************************************************)
(* Properties of the D0 selector (specification SpecD0).                   *)
(***************************************************************************)
\* the pT of the candidate lies outside the configured pT bin edges
OutsideBins(candidate) ==
  \/ findBin(config.binsPt, candidate.pt) = -1
  \/ candidate.pt < config.binsPt[1]

\* every D0 and D0bar selection status of the row is 0
NoSelectionStatus(row) ==
  /\ row.statusD0NoPid = 0
  /\ row.statusD0PerfectPid = 0
  /\ row.statusD0TofPid = 0
  /\ row.statusD0RICHPID = 0
  /\ row.statusD0TofPlusRichPid = 0
  /\ row.statusD0barTofPlusRichPid = 0

\* C13: a candidate whose pT is outside the pT bin edges, in particular below
\* the lowest edge, is rejected whatever its other values: selectionTopol and
\* selectionTopolConjugate return false and every D0 and D0bar selection
\* status of its row is 0.
C13_OutsideBinsRejected ==
  \A k \in DOMAIN candidates : \A c \in { candidates[k] } :
    OutsideBins(c) =>
      /\ ~selectionTopol(config, c)
      /\ ~selectionTopolConjugate(config, c, c.prong0, c.prong1)
      /\ ~selectionTopolConjugate(config, c, c.prong1, c.prong0)
      /\ pc = 1 => NoSelectionStatus(hfSelD0CandidateALICE3Barrel[k])

\* process wrote the row of a candidate that is below the lowest edge, has the
\* D0 decay flag and passes the cuts of the first bin
C13_Witness ==
  /\ pc = 1
  /\ \E k \in DOMAIN candidates :
       /\ candidates[k].pt < config.binsPt[1]
       /\ candidates[k].hfflagD0ToPiK
       /\ TopolCuts(config, candidates[k], 0)
       /\ hfSelD0CandidateALICE3Barrel[k].statusHFFlag = 1
       /\ NoSelectionStatus(hfSelD0CandidateALICE3Barrel[k])

\* C14: process writes one row for every candidate; a PID status that uses
\* TOF is 1 only if both daughters have TOF, and one that uses RICH is 1 only
\* if the daughters it reads RICH for have RICH.
C14_NoResponseNoPid ==
  pc = 1 =>
    /\ Len(hfSelD0CandidateALICE3Barrel) = Len(candidates)
    /\ \A k \in DOMAIN candidates :
         \A row \in { hfSelD0CandidateALICE3Barrel[k] } :
         \A trackPos \in { candidates[k].prong0 } : \A trackNeg \in { candidates[k].prong1 } :
           /\ row.statusD0TofPid = 1 => (trackPos.hasTOF /\ trackNeg.hasTOF)
           /\ row.statusD0TofPlusRichPid = 1 => (trackPos.hasTOF /\ trackNeg.hasTOF)
           /\ row.statusD0barTofPlusRichPid = 1 => (trackPos.hasTOF /\ trackNeg.hasTOF)
           /\ row.statusD0RICHPID = 1 => (trackPos.has_rich /\ trackNeg.has_rich)
           /\ (row.statusD0TofPlusRichPid = 1 /\ trackPos.p > 60) => trackPos.has_rich
           /\ (row.statusD0TofPlusRichPid = 1 /\ trackNeg.p > 200) => trackNeg.has_rich
           /\ (row.statusD0barTofPlusRichPid = 1 /\ trackNeg.p > 60) => trackNeg.has_rich
           /\ (row.statusD0barTofPlusRichPid = 1 /\ trackPos.p > 200) => trackPos.has_rich

\* the row of a candidate selected as D0 whose positive daughter has no TOF
\* response, although the TOF column holds a value within 3 sigma
C14_Witness ==
  /\ pc = 1
  /\ \E k \in DOMAIN candidates :
       /\ ~candidates[k].prong0.hasTOF
       /\ candidates[k].prong1.hasTOF
       /\ Abs(candidates[k].prong0.tofNSigmaPi) < 12
       /\ hfSelD0CandidateALICE3Barrel[k].statusD0NoPid = 1
       /\ hfSelD0CandidateALICE3Barrel[k].statusD0TofPid = 0
       /\ hfSelD0CandidateALICE3Barrel[k].statusD0TofPlusRichPid = 0

\* C27: process writes exactly one row per candidate, in candidate order, on
\* every path through the loop body: after it ran the output table is as long
\* as the candidate table and row k is the row of candidate k.
C27_OneRowPerCandidate ==
  pc = 1 =>
    /\ Len(hfSelD0CandidateALICE3Barrel) = Len(candidates)
    /\ \A k \in DOMAIN candidates :
         /\ hfSelD0CandidateALICE3Barrel[k].statusHFFlag = Flag(candidates[k].hfflagD0ToPiK)
         /\ hfSelD0CandidateALICE3Barrel[k] = SelRowOf(config, candidates[k])

\* a table of two candidates taking different paths: the first has the wrong
\* decay flag, the second is evaluated to the end
C27_Witness ==
  /\ pc = 1
  /\ Len(candidates) = 2
  /\ ~candidates[1].hfflagD0ToPiK
  /\ Len(hfSelD0CandidateALICE3Barrel) = 2
  /\ hfSelD0CandidateALICE3Barrel[1].statusHFFlag = 0
  /\ hfSelD0CandidateALICE3Barrel[2].statusD0NoPid = 1

\* statusD0NoPid = 1 implies statusHFFlag = 1 and that selectionTopol passed
NoPidNested(row, c) ==
  row.statusD0NoPid = 1 => (row.statusHFFlag = 1 /\ selectionTopol(config, c))

\* C28 (as stated): each of the five PID statuses, the D0bar one included,
\* implies statusD0NoPid = 1, which implies statusHFFlag = 1 and
\* selectionTopol.
C28_FlagsNested ==
  pc = 1 =>
    \A k \in DOMAIN candidates : \A row \in { hfSelD0CandidateALICE3Barrel[k] } :
      /\ ( \/ row.statusD0PerfectPid = 1
           \/ row.statusD0TofPid = 1
           \/ row.statusD0RICHPID = 1
           \/ row.statusD0TofPlusRichPid = 1
           \/ row.statusD0barTofPlusRichPid = 1 ) => row.statusD0NoPid = 1
      /\ NoPidNested(row, candidates[k])

\* C28 (amended): the four D0 PID statuses imply statusD0NoPid = 1, which
\* implies statusHFFlag = 1 and selectionTopol; statusD0barTofPlusRichPid = 1
\* implies statusHFFlag = 1, selectionTopol and the D0bar conjugate selection,
\* but not statusD0NoPid = 1.
C28_D0FlagsNested ==
  pc = 1 =>
    \A k \in DOMAIN candidates : \A row \in { hfSelD0CandidateALICE3Barrel[k] } :
    \A c \in { candidates[k] } :
      /\ ( \/ row.statusD0PerfectPid = 1
           \/ row.statusD0TofPid = 1
           \/ row.statusD0RICHPID = 1
           \/ row.statusD0TofPlusRichPid = 1 ) => row.statusD0NoPid = 1
      /\ NoPidNested(row, c)
      /\ row.statusD0barTofPlusRichPid = 1 =>
           /\ row.statusHFFlag = 1
           /\ selectionTopol(config, c)
           /\ selectionTopolConjugate(config, c, c.prong1, c.prong0)

\* a candidate selected as D0bar only: its D0bar PID status is 1 and its
\* statusD0NoPid is 0
C28_Witness ==
  /\ pc = 1
  /\ \E k \in DOMAIN candidates :
       /\ hfSelD0CandidateALICE3Barrel[k].statusD0barTofPlusRichPid = 1
       /\ hfSelD0CandidateALICE3Barrel[k].statusD0NoPid = 0
       /\ hfSelD0CandidateALICE3Barrel[k].statusHFFlag = 1

(***************************************************************************)
(* Properties of the pairing handlers (specification Spec), continued.     *)
(***************************************************************************)
\* the event selection both branches of processME are said to apply
EventLevelSelected(c) ==
  /\ eventselection(config, Collision(frame, c))
  /\ config.requireRCTFlagChecker => rctChecker(Collision(frame, c))

\* C24 (as stated): whichever multiplicity estimator is configured, processME
\* combines candidates of two events only if both events pass eventselection
\* and, when requireRCTFlagChecker is set, the RCT flag check.
C24_BothBranchesCheckRCT ==
  LastHandler = "processME" =>
    \A k \in DOMAIN calls :
      EventLevelSelected(calls[k].src.c1) /\ EventLevelSelected(calls[k].src.c2)

\* the candidates of collision c that pass selectionV0 and whose two
\* daughters pass isSelectedV0Daughter
FullySelected(c) ==
  { i \in V0Set(c) : SelectedIn(c, i) /\ NegSelected(i) /\ PosSelected(i) }

\* C25: with selectTWOKsOnly a same-event handler calls fillInvMass at most
\* once, after the loop, and only if exactly two candidates of its collision
\* passed the single-candidate selection and their pair passed the pairwise
\* cuts; the four-vectors passed are those of that pair, assigned in this call.
C25_RecordedPairIsOfThisEvent ==
  (SameEventRan /\ config.selectTWOKsOnly) =>
    /\ Len(calls) <= 1
    /\ \A k \in DOMAIN calls : \A src \in { calls[k].src } : \A res \in { calls[k].res } :
         /\ src.c1 = LastCollision /\ src.c2 = LastCollision
         /\ Cardinality(FullySelected(LastCollision)) = 2
         /\ FullySelected(LastCollision) = {src.v1, src.v2}
         /\ src.v1 < src.v2
         /\ ~SharesTrack(V0Table[src.v1], V0Table[src.v2])
         /\ applyAngSep(config, V0Table[src.v1], V0Table[src.v2])
         /\ res.daughter1 = KshortVector(V0Table[src.v1])
         /\ res.daughter2 = KshortVector(V0Table[src.v2])
         /\ res.mother = VecAdd(res.daughter1, res.daughter2)
         /\ ~res.isMix
         /\ daughter1 = res.daughter1 /\ daughter2 = res.daughter2 /\ mother = res.mother

\* processSE recorded the pair of its collision after the loop, in a frame
\* where an earlier collision had left another pair in the member variables
C25_Witness ==
  /\ LastHandler = "processSE"
  /\ config.selectTWOKsOnly
  /\ LastCollision = NumCollisions
  /\ Len(calls) = 1
  /\ Cardinality(FullySelected(LastCollision)) = 2
  /\ \E c \in 1..(NumCollisions - 1) :
       EventKept(c) /\ Cardinality(FullySelected(c)) = 2

(***************************************************************************)
(* Properties of fillInvMass (specification SpecFill): the histograms of   *)
(* the two pairing modes.                                                  *)
(***************************************************************************)
\* the histograms call k made entries in
HistsFilled(k) == { calls[k].res.fills[i].hist : i \in DOMAIN calls[k].res.fills }

\* C26: a mixed pair fills h3glueInvMassME only and draws no rotation angle;
\* a same-event pair fills h3glueInvMassDS and h3glueInvMassRot only and draws
\* exactly cRotations angles, whether or not its primary entry was made.
C26_HistogramsByPairingMode ==
  \A k \in DOMAIN calls :
    /\ calls[k].res.isMix =>
         /\ HistsFilled(k) \subseteq {"h3glueInvMassME"}
         /\ Len(calls[k].res.theta2) = 0
    /\ ~calls[k].res.isMix =>
         /\ HistsFilled(k) \subseteq {"h3glueInvMassDS", "h3glueInvMassRot"}
         /\ Len(calls[k].res.theta2) = config.cRotations

\* a same-event call whose pair failed the rapidity gate drew its two angles
\* and made a rotated entry
C26_Witness ==
  /\ Len(calls) = 1
  /\ ~calls[1].res.isMix
  /\ config.cRotations = 2
  /\ ~RapidityGate(calls[1].res.mother)
  /\ Len(calls[1].res.theta2) = 2
  /\ "h3glueInvMassRot" \in HistsFilled(1)

(***************************************************************************)
(* Properties of processGen (specification SpecGen).                       *)
(***************************************************************************)
\* a generated resonance of the selected species, inside the rapidity window,
\* with exactly two daughters, both physical-primary K0s
GenQualifies(cfg, mcParticle) ==
  /\ Abs(mcParticle.pdgCode) = SelectedPdg(cfg)
  /\ ~(cfg.apply_rapidityMC /\ Abs(mcParticle.y) >= 500)
  /\ Len(mcParticle.daughters) = 2
  /\ \A n \in 1..2 : /\ mcParticle.daughters[n].isPhysicalPrimary
                      /\ Abs(mcParticle.daughters[n].pdgCode) = 310

\* the Monte Carlo collisions whose particles processGen has scanned
GenScanned(k) ==
  /\ k <= pc
  /\ config.isMC
  /\ config.allGenCollisions \/ evtReconstructedAndSelected(config, << Collision(frame, k) >>)

\* C23: passKs is empty when the scan of the next particle's daughters starts,
\* also at the start of the next processGen call, and every generated
\* resonance of the selected species with exactly two physical-primary K0s
\* daughters inside the rapidity window has its entry in Genf1710.
C23_PassKsEmptyBeforeEachScan ==
  /\ passKs = <<>>
  /\ \A k \in DOMAIN mcParticles : \A n \in DOMAIN mcParticles[k] :
       GenScanned(k) /\ GenQualifies(config, mcParticles[k][n])
         => \E e \in DOMAIN hMChists.Genf1710 :
              /\ hMChists.Genf1710[e].mcCollision = k
              /\ hMChists.Genf1710[e].mcParticle = n

(***************************************************************************)
(* Properties of processRec (specification SpecRec).                       *)
(***************************************************************************)
\* the Recf1710_pt1 entries made for mother g in the call on collision c
RecEntriesOf(c, g) ==
  { e \in DOMAIN hMChists.Recf1710_pt1 :
      hMChists.Recf1710_pt1[e].collision = c /\ hMChists.Recf1710_pt1[e].mother = g }

\* C21: in processRec a generated mother particle has at most one entry in
\* Recf1710_pt1 per collision, also when several reconstructed V0 pairs of
\* the collision are matched to that mother.
C21_OneEntryPerMother ==
  \A c \in 1..NumCollisions : \A g \in DOMAIN RecMothers :
    Cardinality(RecEntriesOf(c, g)) <= 1

(***************************************************************************)
(* Properties of jetHadronRecoil_OO (specification SpecJet).               *)
(***************************************************************************)
\* the last call was a particle-level process function
PartLevelReturned ==
  returned.call \in {"processMC_PartLevel", "processMC_PartLevel_Weighted"}

\* the last call filled particle n into hPartPtEtaPhi
PartFilled(n) ==
  \E k \in DOMAIN spectra.fills :
    spectra.fills[k] = [name |-> "hPartPtEtaPhi", row |-> n, call |-> pc]

\* C22: fillMCPHistograms skips a particle if and only if the particle is
\* electrically neutral or is not a physical primary; every other particle is
\* filled into hPartPtEtaPhi.
C22_SkippedIffNeutralOrSecondary ==
  PartLevelReturned =>
    \A n \in DOMAIN particles :
      ~PartFilled(n) <=> (particles[n].charge = 0 \/ ~particles[n].isPhysicalPrimary)

\* C29: every histogram a process function of jetHadronRecoil_OO fills is a
\* histogram init registered.
C29_FilledNamesRegistered ==
  \A k \in DOMAIN spectra.fills : spectra.fills[k].name \in spectra.registered
====
